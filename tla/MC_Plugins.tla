----------------------------- MODULE MC_Plugins -----------------------------
(***************************************************************************)
(* Small instances of the plugins and of the executors.                    *)
(***************************************************************************)
EXTENDS Plugins, TLC

CONSTANTS
  c1, c2,                          \* messages, chat calls, commands or requests
  s1, t1, p1,                      \* Recorder
  pa, pb, pc, x, y, i1, i2         \* RepoAuth

OwnerOf == c1 :> s1 @@ c2 :> s1 @@ t1 :> s1 @@ p1 :> s1

Entry(provider, project_, idp) ==
  [provider |-> provider, block |-> "valid", project |-> project_, idp |-> idp,
   oauth2 |-> FALSE, accepted |-> TRUE, userAuth |-> FALSE]

(* Two projects of one identity provider; an edit of the project, beside   *)
(* another identity provider and a rejected auth block; nothing managed.   *)
ThreeConfigs ==
  { << Entry(pa, x, i1), [Entry(pb, y, i1) EXCEPT !.userAuth = TRUE] >>,
    << Entry(pa, y, i1), Entry(pb, x, i2), [Entry(pc, x, i1) EXCEPT !.accepted = FALSE] >>,
    << [Entry(pa, y, i1) EXCEPT !.oauth2 = TRUE], Entry(pb, None, i1),
       [Entry(pc, x, i1) EXCEPT !.block = "malformed"] >> }

(* Calls of one kind are alike, and so are tabs.                           *)
Symmetry == Permutations({c1, c2}) \cup Permutations(Tabs)
=============================================================================
