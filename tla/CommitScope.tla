----------------------------- MODULE CommitScope -----------------------------
(***************************************************************************)
(* What a commit may change in running, as the user sees it.               *)
(*                                                                         *)
(* The candidate of a root is a copy of running, taken at the first        *)
(* command for the root and written back as a whole.  The user knows       *)
(* nothing of copies, of parent_data or of the list of roots: they are at  *)
(* a place and name nodes relative to it.  Here the user's knowledge is    *)
(* kept beside the session.                                                *)
(***************************************************************************)
EXTENDS ConfigSession

VARIABLES
  place,     \* the node the user is at, <<>> at the top
  named,     \* the nodes that commands were about since the root was taken
             \* from running or committed
  foreign    \* the nodes that other clients have written to since then

scopeVars == <<vars, place, named, foreign>>

Below(n) == {m \in Nodes : IsPrefix(n, m)}

(* Node n belongs to a root whose candidate is held.                       *)
Copied(n) == \E r \in Roots : entry[r] = "live" /\ IsPrefix(r, n)

(* A command that goes down is about the node only if it creates it.       *)
NewTo(n, exists) == IF exists THEN {} ELSE {n}

AtTop == place' = <<>>

Keeps == UNCHANGED <<named, foreign>>

Forgets == named' = {} /\ foreign' = {}

RootCommand ==
  \/ \E r \in Roots :
       /\ RootContainer(r)
       /\ place' = r
       /\ named' = named \cup NewTo(r, cand[r] # Absent \/ running[r] # Absent)
       /\ UNCHANGED foreign
  \/ (RootRejected \/ \E r \in Roots : NoRootContainer(r)) /\ AtTop /\ Keeps

ListCommand ==
  \E e \in Names :
    LET n == Append(place, e) IN
      /\ \/ /\ ListEntry(e)
            /\ place' = IF n \in KeyOnly THEN place ELSE n
            /\ named' = named \cup NewTo(n, n \in Nodes /\ cand[n] # Absent)
         \/ /\ ListEntryMisplaced(e) \/ NoListEntry(e)
            /\ named' = named \cup Below(n)
            /\ UNCHANGED place
      /\ UNCHANGED foreign

LeafCommand ==
  /\ \E v \in Values : Leaf(v)
  /\ named' = named \cup {place}
  /\ UNCHANGED <<place, foreign>>

(* Commit and exit compare a root with running: one that was not refused   *)
(* is as in running.                                                       *)
Comparing ==
  /\ CommitRoot \/ ExitConfigRoot
  /\ LET r == roots[at_root]
         done == IF Dirty(r) /\ running' = running THEN {} ELSE Below(r)
     IN named' = named \ done /\ foreign' = foreign \ done
  /\ UNCHANGED place

Moving ==
  \/ ExitSubmode /\ place' = Front(place) /\ Keeps
  \/ (CtrlZ \/ Enable \/ Disable \/ ConfigureTerminal) /\ AtTop /\ Keeps
  \/ (CmdCommit \/ ExitConfig) /\ UNCHANGED place /\ Keeps

(* The candidate is given up, or the session ends.                         *)
Ending ==
  /\ \/ ExitConfigFree \/ CmdDiscardChanges
     \/ ExitSession \/ Quit \/ HangUp \/ Terminate \/ ShowConfigCandidate
     \/ Shutdown \/ Start
  /\ AtTop /\ Forgets

Elsewhere ==
  /\ ExternalEdit
  /\ foreign' = foreign \cup {n \in Nodes : running'[n] # running[n] /\ Copied(n)}
  /\ UNCHANGED <<place, named>>

ScopeInit == Init /\ place = <<>> /\ named = {} /\ foreign = {}

ScopeNext ==
  \/ RootCommand \/ ListCommand \/ LeafCommand
  \/ Comparing \/ Moving \/ Ending \/ Elsewhere

ScopeSpec == ScopeInit /\ [][ScopeNext]_scopeVars

-----------------------------------------------------------------------------
(* A commit changes in running only nodes that the user has named, and     *)
(* nodes that another client has written to since the root was taken: this *)
(* client's changes are undone without notice, and nothing else is lost.   *)
CommitsOnlyNamed ==
  [][CommitRoot => \A n \in Nodes :
       running'[n] # running[n] => n \in named \cup foreign]_scopeVars

(* What a commit leaves behind when it has come to its end: every root, or *)
(* every root before the one that sysrepo refused, differs from running    *)
(* only where another client has written since the root was brought there, *)
(* while the commit went on to other roots.                                *)
CommitEffective ==
  [][CommitRoot /\ at_root' = 0 =>
       \A i \in 1..Len(roots) : (RefuseRoot(roots[at_root]) => i < at_root) =>
         \A n \in Below(roots[i]) :
           (Copied(n) /\ cand[n] # running[n])' => n \in foreign']_scopeVars

(* The candidate of a node that differs from running is only given up by   *)
(* discard-changes, with the process, or by an exit whose walk found the   *)
(* node's root unchanged before another client wrote to the node.          *)
UncommittedSurvives ==
  [][\A r \in Roots : entry[r] = "live" /\ entry'[r] # "live" =>
       \/ CmdDiscardChanges \/ Shutdown \/ Start
       \/ \A n \in Below(r) :
            cand[n] # running[n] => ExitConfigFree /\ n \in foreign]_scopeVars
=============================================================================
