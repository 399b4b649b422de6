------------------------------- MODULE MCGnss -------------------------------
(* Instance for TLC: 3-bit bytes, two-byte payloads, two solutions.  The     *)
(* foreign messages are an acknowledgement, as the module answers each       *)
(* configuration packet, and a stray sync byte; damage turns a byte into the *)
(* first sync byte.                                                          *)
EXTENDS Gnss

MCSync == <<5, 6>>
MCNavPvt == <<1, 7>>
MCForeign == {<<5, 6, 5, 1, 2, 0, 6, 1, 6, 7>>, <<5>>}
=============================================================================
