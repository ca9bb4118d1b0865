-------------------------- MODULE MCReleaseWatcher --------------------------
(***************************************************************************)
(* ReleaseWatcher for model checking.  The configurations give the sets    *)
(* their members; what a configuration cannot write (records, tuples) is   *)
(* built here from sets that it can.                                       *)
(***************************************************************************)
EXTENDS ReleaseWatcher, TLC

CONSTANTS
    ForcedScopes,       \* scopes of forced polls (None: the full fleet)
    DedupScopes,        \* scopes of polls with the SHA-unchanged filter
    PinRepos,           \* repos an operator sets,
    PinCommits          \* and the commits set

MCPollArgs == [force : {TRUE}, scope : ForcedScopes] \cup
              [force : {FALSE}, scope : DedupScopes]
MCPins == PinRepos \X PinCommits

ProcSymmetry == Permutations(Procs)
=============================================================================
