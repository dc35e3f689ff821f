----------------------------- MODULE MCResponse -----------------------------
(***************************************************************************)
(* A small instance of Response for TLC: bodies of 0 and 2 bytes, range  *)
(* ends 0 to 3 (so ranges past the body and suffixes longer than it       *)
(* occur), the 200 status line and the passthrough headers shrunk to one *)
(* byte each besides the Content-Length digits, one byte of other data   *)
(* after the item, two requests per connection.                           *)
(***************************************************************************)
EXTENDS Response
=============================================================================
