----------------------------- MODULE MCFraming -----------------------------
(***************************************************************************)
(* Two short kinds of frames that can begin inside each other, for TLC.    *)
(***************************************************************************)
EXTENDS Framing, SequencesExt

\* The last one stands for the empty element of an ended connection.
MCBytes == 0 .. 3

MCFrameLength == (<<1, 2>> :> 4) @@ (<<2, 1>> :> 3)

\* The last byte is the sum of the others.
MCValid(f) == FoldSeq(+, 0, Front(f)) % 4 = Last(f)
=============================================================================
