---------------------------- MODULE MCBootstrap ----------------------------
(***************************************************************************)
(* Small instances of the workspace bootstrap for TLC.                     *)
(***************************************************************************)
EXTENDS Bootstrap

CONSTANTS r1, r2, url, main, other, c1, c2

\* One Agent's options; options for another revision, for no repository, and
\* options validateOptions refuses.
Clone == [url |-> url, revision |-> main, valid |-> TRUE]
OtherRevision == [Clone EXCEPT !.revision = other]
NoRepository == [Clone EXCEPT !.url = None]
Invalid == [Clone EXCEPT !.valid = FALSE]

AllRequests == {Clone, OtherRevision, NoRepository, Invalid}

\* A volume as provisioned, one with an empty repository directory, and one with
\* content that no bootstrap has put there: a plain directory, a link, a clone.
Untracked(origin, head) == [Bare("dir") EXCEPT !.origin = origin, !.head = head]
AnyVolume == {Bare("absent"), Bare("empty"), Bare("unsafe"), Untracked(None, None),
              Untracked(url, None), Untracked(url, c1)}
=============================================================================
