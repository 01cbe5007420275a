-------------------------- MODULE MCFileTransfer --------------------------
(* Instance of FileTransfer: both sides hold a version of file 1, only b   *)
(* holds the empty file 2.                                                 *)
EXTENDS FileTransfer

MCFile == [a |-> <<(<<3>>), (<<>>)>>, b |-> <<(<<1, 2>>), (<<>>)>>]
MCIndexed == [a |-> {1}, b |-> {1, 2}]
MCMaxIntent == [a |-> 2, b |-> 1]
MCOneCall == [a |-> 1, b |-> 0]
=============================================================================
