-------------------------------- MODULE Display --------------------------------
(***************************************************************************)
(* What a double-buffered text screen promises.  want is the picture the   *)
(* writer has drawn, shown the one on the glass.  Drawing changes what is  *)
(* wanted and nothing that is seen; presenting shows all of it at once.    *)
(***************************************************************************)
CONSTANT Looks    \* what a cell can look like

VARIABLES want, shown

Init == shown = want

\* The screen appears, with its first picture on it.
Open ==
    /\ DOMAIN want = {}
    /\ want' \in [DOMAIN want' -> Looks]
    /\ shown' = want'

Draw ==
    /\ want' \in [DOMAIN want -> Looks]
    /\ UNCHANGED shown

Present ==
    /\ shown' = want
    /\ UNCHANGED want

Next == Open \/ Draw \/ Present

Spec == Init /\ [][Next]_<<want, shown>>
================================================================================
