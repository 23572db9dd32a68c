---------------------------- MODULE MC_EditForms ----------------------------
(* Instance of EditForms for TLC.                                          *)
EXTENDS EditForms, TLC

\* Tabs are interchangeable in the specification and in its properties.
Symmetry == Permutations(Tabs)

\* The project page alone.
ProjectPage == {p \in Pages : updateProject \in p[1]}
ProjectRevisions == Versioned(FALSE, ProjectPage)

\* Under revisions two writes, of a volume one besides any number of changes of its
\* description.  Under content hashes the page of an ACL gets three, which let what
\* it shows be restored behind its back, and the others one.
AclPage == {p \in Pages : updateNetworkACL \in p[1]}
Bound ==
  [r \in AllResources |->
     IF r \in Versioned(TRUE, AclPage) THEN 3
     ELSE IF ~r.content /\ r.covers = Fields THEN 2
     ELSE 1]
TwoWrites == [r \in ProjectRevisions |-> 2]
=============================================================================
