------------------------------ MODULE MCSweep ------------------------------
(***************************************************************************)
(* Two targets of two users: one resumed mid-file in a Matroska file whose *)
(* cue index is at its end, one next-up episode sized from the file's      *)
(* start with a flat tail.  A third, on no configured path, ranks last.    *)
(***************************************************************************)
EXTENDS SweepProps, TLC

CONSTANTS f1, f2, u1, u2

Movie ==
    [Item |-> [BitrateBps |-> 8, SizeBytes |-> 4, Runtime |-> 4, ResumeOffset |-> 1,
               UserID |-> u1],
     Tier |-> "resume"]

Episode ==
    [Item |-> [BitrateBps |-> 16, SizeBytes |-> 2, Runtime |-> 1, ResumeOffset |-> 0,
               UserID |-> u2],
     Tier |-> "next-up"]

Stray == [Movie EXCEPT !.Tier = "recently-added"]

MCFiles   == {f1, f2}
MCUsers   == {u1, u2}
MCTargets == {Movie, Episode, Stray}
MCUnmapped == {Stray}
MCFileSize == (f1 :> 4) @@ (f2 :> 2)
MCLayout  == (f1 :> [FrontEnd |-> 1, CueStart |-> 2]) @@ (f2 :> NoLayout)
MCPath    == (Movie :> f1) @@ (Episode :> f2) @@ (Stray :> f1)

Ranked      == {<<Movie, Episode, Stray>>}
EpisodeOnly == {<<Episode>>}
=============================================================================
