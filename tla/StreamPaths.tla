---------------------------- MODULE StreamPaths ----------------------------
(***************************************************************************)
(* Path ownership (memory/streams.py): which files an owned_paths token    *)
(* covers, when two tokens overlap, and which changed files a stream does  *)
(* not own.                                                                *)
(*                                                                         *)
(* A path is the sequence that str.split("/") gives: "src/a.py" is         *)
(* <<"src", "a.py">>, "src/" is <<"src", "">>, "src//" is <<"src", "", "">>*)
(* and "./src" is <<".", "src">>.  In this form p.startswith(d + "/") says *)
(* that d is a strict prefix of p.                                         *)
(***************************************************************************)
EXTENDS Naturals, Sequences, SequencesExt

CONSTANT Suffixed   \* the last segments for which Path(...).suffix is not empty

\* rstrip("/"), which takes every trailing slash.
RStrip(path) == SubSeq(path, 1, Max({1} \cup {i \in 1..Len(path) : path[i] # ""}))

\* endswith("/")
EndsWithSlash(path) == Len(path) > 1 /\ Last(path) = ""

\* The directory form of a token, without its last slash: a token names a
\* directory if it ends with "/" or has no file extension.
IsDirectory(token) == EndsWithSlash(token) \/ Last(token) \notin Suffixed

DirOf(token) == IF EndsWithSlash(token) THEN Front(token) ELSE token

\* _owned_covers: a is b, or a is a directory and b is it or lies under it.
OwnedCovers(a, b) ==
    \/ a = b
    \/ IsDirectory(a) /\ (b = RStrip(a) \/ IsStrictPrefix(DirOf(a), b))

\* Some token of one set covers some token of the other.
Overlap(owned1, owned2) ==
    \E a \in owned1, b \in owned2 : OwnedCovers(a, b) \/ OwnedCovers(b, a)

\* _norm_rel: leading "./" go, and nothing else.
NormRel(path) ==
    SubSeq(path, Min({Len(path)} \cup {i \in 1..Len(path) : path[i] # "."}), Len(path))

\* Broken variant: a token without a slash is taken for a file, whatever it is.
OwnedByExact(rel, token) ==
    \/ rel = token
    \/ EndsWithSlash(token) /\ (rel = RStrip(token) \/ IsStrictPrefix(Front(token), rel))

\* One token of path_is_owned, for a normalised path.
OwnedBy(rel, token) ==
    \/ /\ EndsWithSlash(token)
       /\ \/ rel = RStrip(token)
          \/ IsStrictPrefix(Front(token), rel)
          \/ IsStrictPrefix(RStrip(token), rel)
    \/ /\ ~EndsWithSlash(token)
       /\ \/ rel = token
          \/ Last(token) \notin Suffixed /\ IsStrictPrefix(token, rel)

PathIsOwned(path, owned) == \E token \in owned : OwnedBy(NormRel(path), token)

\* files_outside_owned: the changed files that a stream has no right to.
FilesOutsideOwned(changed, owned) ==
    {rel \in {NormRel(f) : f \in changed} \ {<<"">>, <<".">>} : ~PathIsOwned(rel, owned)}
=============================================================================
