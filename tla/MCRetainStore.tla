--------------------------- MODULE MCRetainStore ---------------------------
(***************************************************************************)
(* Instances of RetainStore for TLC.  Topics and contents of different     *)
(* lengths, so that entries take five to nine bytes of the sixteen; one    *)
(* topic is empty, and the contents hold a NUL and a byte that is also a   *)
(* topic.                                                                  *)
(***************************************************************************)
EXTENDS RetainStore

MCTopicName == {<<>>, <<97>>, <<98, 99>>}
MCContents == {<<>>, <<0>>, <<97, 0>>, <<97, 0, 98>>}
=============================================================================
