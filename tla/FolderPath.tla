------------------------------- MODULE FolderPath -------------------------------
(***************************************************************************)
(* One folder path is stored for every provider; each reads it in its own  *)
(* way.  A path and an S3 key are sequences of characters.                 *)
(***************************************************************************)
EXTENDS Sequences, SequencesExt, Ascending

Slash == "/"

Stripped(path, left, right) ==
    LET names == {i \in DOMAIN path : path[i] # Slash}
        first == IF left  THEN CHOOSE i \in names : \A j \in names : i <= j ELSE 1
        last  == IF right THEN CHOOSE i \in names : \A j \in names : i >= j ELSE Len(path)
    IN IF names = {} THEN <<>> ELSE SubSeq(path, first, last)

(* _normalize_path of dropbox.py *)
DropboxPath(path) ==
    LET s == Stripped(path, FALSE, TRUE)
    IN IF s = <<>> \/ s[1] = Slash THEN s ELSE <<Slash>> \o s

(* A mutated form of S3Prefix: no "/" at its end. *)
S3PrefixWithoutSlash(path) == Stripped(path, TRUE, TRUE)

(* _normalize_prefix of s3.py *)
S3Prefix(path) ==
    LET s == Stripped(path, TRUE, TRUE)
    IN IF s = <<>> THEN <<>> ELSE s \o <<Slash>>

(* The folders that the Drive provider walks through from My Drive: what    *)
(* is between the slashes.                                                  *)
Starts(path) == {i \in DOMAIN path : path[i] # Slash /\ (i > 1 => path[i - 1] = Slash)}

EndOf(path, i) ==
    CHOOSE j \in i..Len(path) :
        (\A k \in i..j : path[k] # Slash) /\ (j < Len(path) => path[j + 1] = Slash)

DriveSegments(path) ==
    LET first == Ascending(Starts(path))
    IN [n \in DOMAIN first |-> SubSeq(path, first[n], EndOf(path, first[n]))]

(* The keys that list_new_files of s3.py returns: those under the prefix    *)
(* that have no "/" after it.                                               *)
S3Listed(keys, prefix) ==
    {k \in keys : /\ IsStrictPrefix(prefix, k)
                  /\ \A i \in (Len(prefix) + 1)..Len(k) : k[i] # Slash}
=============================================================================
