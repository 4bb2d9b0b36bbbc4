---------------------------- MODULE MCFtpServer -----------------------------
(* Small instances of FtpServer: the client is a model value, the tables     *)
(* have two entries or three.                                                *)
EXTENDS FtpServer

CONSTANT x

OneClient == {x}
=============================================================================
