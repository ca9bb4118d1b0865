--------------------------- MODULE MCTriggerPath ----------------------------
(***************************************************************************)
(* TriggerPath for model checking: every push that is worth a command, and *)
(* one delivery of each kind that is not.  Poison tags come from elsewhere.*)
(***************************************************************************)
EXTENDS TriggerPath

MCDeliveries ==
    [signed : {TRUE}, event : {"push"}, repo : Repos,
     tag : (Tags \ Poison) \cup {None}, touches : {TRUE}]
        \cup [signed : BOOLEAN, event : {"push", "malformed push", "other"},
              repo : Repos, tag : {None}, touches : {FALSE}]
=============================================================================
