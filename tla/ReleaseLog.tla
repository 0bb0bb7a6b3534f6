----------------------------- MODULE ReleaseLog -----------------------------
(***************************************************************************)
(* What the migration runner promises (README: "Migration files are        *)
(* checksummed and immutable; the runner refuses to silently adopt an      *)
(* unversioned or incompatible schema"): the database passes from release  *)
(* to release as a whole, and never leaves out or alters a migration that  *)
(* it has recorded.                                                        *)
(***************************************************************************)

CONSTANT Directories  \* what releases contain: functions from version to text

VARIABLE installed    \* the recorded migrations: version to text

Nothing == [v \in {} |-> v]

Init == installed \in Directories \cup {Nothing}

Upgrade(d) ==
  /\ \A v \in DOMAIN installed : v \in DOMAIN d /\ d[v] = installed[v]
  /\ installed' = d

Next == \E d \in Directories : Upgrade(d)

Spec == Init /\ [][Next]_installed
=============================================================================
