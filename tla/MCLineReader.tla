---------------------------- MODULE MCLineReader ----------------------------
(* Small instances of LineReader: bodies of up to six bytes.               *)
EXTENDS LineReader

OneByteBytes == {"a", "nl"}
AllBytes == {"a", "nl", "H", "T"}
=============================================================================
