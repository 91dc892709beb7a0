---------------------------- MODULE MCRegistration --------------------------
(* Three directories, one in the other; the first is the root of the file system. *)
EXTENDS Registration, TLC

CONSTANTS fs, repo, member, r1, r2, r3

MCDirs == {fs, repo, member}
MCAbove == fs :> {fs} @@ repo :> {fs, repo} @@ member :> {fs, repo, member}
MCSymmetry == Permutations(Requests)

=============================================================================
