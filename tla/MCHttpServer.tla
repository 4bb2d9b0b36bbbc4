----------------------------- MODULE MCHttpServer -----------------------------
(* Small instances of HttpServer for TLC: a body of three units. *)
EXTENDS HttpServer

CONSTANTS u1, u2, u3

ThreeUnits == <<u1, u2, u3>>
=============================================================================
