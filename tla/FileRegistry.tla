---------------------------- MODULE FileRegistry ----------------------------
(***************************************************************************)
(* The static registry of local development, internal/registry/file.go.    *)
(* Start reads one document, a function from keys to values, and swaps in  *)
(* one mapping; it is a pure function up to the order in which Go iterates *)
(* over the document's buckets.                                            *)
(***************************************************************************)
EXTENDS Integers

CONSTANTS
    Ids, ShardIds,    \* shard ids and bucket ids, and the shard ids among them
    NoId,             \* the id of a bucket key that Sscanf refuses
    ParsedId,         \* the id of each key of a document
    Completed,        \* [Ids -> [Defs -> Defs]]: a decoded record with its id filled in
    Malformed,        \* a value that json.Unmarshal refuses
    Absent

(* One bad value or one bad bucket key fails the whole document. *)
StartFails(doc) ==
    \E k \in DOMAIN doc : doc[k] = Malformed \/ ParsedId[k] = NoId

KeysOf(doc, i) == {k \in DOMAIN doc : ParsedId[k] = i}

(* Which key of each id the loop over doc.Buckets comes to last. *)
LastIterated(doc) ==
    {last \in [Ids -> DOMAIN doc \cup {NoId}] :
        \A i \in Ids : last[i] \in (IF KeysOf(doc, i) = {} THEN {NoId} ELSE KeysOf(doc, i))}

(* Faulty: the loop does not set the bucket_id. *)
TakenAsIs(i, v) == v

(* Shards are the decoded map itself; the loop sets each bucket's id. *)
Taken(i, v) == IF i \in ShardIds THEN v ELSE Completed[i][v]

(* The mappings Start may swap in, none if it returns an error. *)
Start(doc) ==
    {[rev |-> 1,
      map |-> [i \in Ids |-> IF KeysOf(doc, i) = {} THEN Absent
                              ELSE Taken(i, doc[last[i]])]] :
        last \in {l \in LastIterated(doc) : ~StartFails(doc)}}
=============================================================================
