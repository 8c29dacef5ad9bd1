---- MODULE MCArtifactJournal ----
(* Instances of ArtifactJournal for TLC; the .cfg files give the constants. *)
EXTENDS ArtifactJournal

====
