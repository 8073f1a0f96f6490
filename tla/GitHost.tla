-------------------------------- MODULE GitHost --------------------------------
(* A host of git repositories as the publishing commands see it: a repository is *)
(* created empty, a push to main is taken when it is a fast-forward, a push of a  *)
(* tag is taken when there is no such tag. Nothing is ever forced.                *)
EXTENDS Sequences, SequencesExt

CONSTANTS
    Tag,    \* the names of tags
    None    \* no repository, no tag

ASSUME HostAssumption == None \notin Tag

\* A repository with commits out of a set: main as the sequence of its commits.
Repository(Commit) == [main : Seq(Commit), tags : [Tag -> Commit \cup {None}]]

Empty == [main |-> <<>>, tags |-> [t \in Tag |-> None]]

\* Bug: pushes to main are forced.
AcceptsAnything(repo, history) == TRUE

AcceptsMain(repo, history) == IsPrefix(repo.main, history)

PushedMain(repo, history) == [repo EXCEPT !.main = history]

AcceptsTag(repo, tag) == repo.tags[tag] = None

PushedTag(repo, tag, commit) == [repo EXCEPT !.tags[tag] = commit]

===============================================================================
