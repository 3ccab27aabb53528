------------------------------ MODULE MCLogger ------------------------------
(* A ring of eight bytes, entries of three and four.                        *)
EXTENDS Logger

MCRequests == 0..(MaxPayload + 1)
\* Bytes never written are zero; others may read as the longest length.
MCJunk(b, c) == IF b[1] = NoEntry THEN 0 ELSE 65535
=============================================================================
