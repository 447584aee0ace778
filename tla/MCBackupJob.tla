---------------------------- MODULE MCBackupJob -----------------------------
(* Small instances of BackupJob: what there is to back up.                  *)
EXTENDS BackupJob

\* Two projects: an issue with two attachments and one without, and, after an
\* empty project, an issue with one attachment.
MCContent == << <<2, 0>>, <<>>, <<1>> >>

\* One issue with an attachment and one without.
MCPair == << <<1, 0>> >>
=============================================================================
