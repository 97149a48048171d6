--------------------------- MODULE MCServerSession ---------------------------
(* Instances of ServerSession for TLC. *)
EXTENDS ServerSession

BothStreams == <<"stdout", "stderr">>
OneStream == <<"stdout">>
=============================================================================
