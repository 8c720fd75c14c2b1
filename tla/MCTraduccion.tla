---------------------------- MODULE MCTraduccion ----------------------------
(* Translation over the memory module, for TLC.                            *)
EXTENDS Traduccion, TLC

\* A process with more pages than frames, that writes in two words of one and copies
\* it to the other, and one with a page that takes its frame.  What a READ does to
\* a page, a COPY does to the one it reads.
CopiaYEscribe(q) ==
    IF q = 0 THEN {Write(0, 1), Write(0, Nada), Copy(1, 0)} ELSE {Write(0, 1)}
=============================================================================
