----------------------------- MODULE MCMainLoop -----------------------------
(***************************************************************************)
(* Bytes from 0 to 9 and rings of ten for TLC, with packets of 5 to 9      *)
(* bytes, of which those of 8 and 9 do not fit in a frame.                 *)
(***************************************************************************)
EXTENDS MainLoop

Short == <<9, 5, 1, 6, 1>>
\* Names the node 6.
Alive == <<9, 7, 3, 6, 2, 8, 1>>
\* A start byte and a length in the payload, and a packet of the longest kind.
Nested == <<9, 6, 9, 5, 0, 1>>
Long == <<9, 9, 9, 9, 0, 9, 6, 2, 9>>

MCUplinks ==
  { Alive \o Short, Short \o Long \o Short,
    <<9, 6>> \o Nested \o Short,           \* a false start byte, checked and refused
    <<9, 9>> \o Short \o Alive,            \* one that claims the packet and more
    <<9, 0, 5, 9>> \o Long,                \* lengths too short for a packet
    <<9, 7, 3, 5, 2, 0, 0>> \o Short,      \* ALIVE with a wrong checksum
    Tail(Alive) \o <<9>> \o Nested,        \* the rest of a packet
    <<1>> \o Short \o Short }              \* the byte missing at the wrap is in memory

MCDownlinks == { <<Short, Nested>>, <<Long, <<9, 7>>, Short>> }

\* Both directions together for the shorter ones.
MCInputs ==
  (MCUplinks \X {<< >>}) \cup ({<< >>} \X MCDownlinks)
  \cup {<<Short \o Alive, <<Nested>> >>, <<Alive, <<Short, Nested>> >>}

MCReports == { <<1, 9, <<5>> >> }
=============================================================================
