------------------------------ MODULE LogReads ------------------------------
(***************************************************************************)
(* The read-only endpoints of trillian/ctfe: get-entries,                  *)
(* get-proof-by-hash, get-sth-consistency and get-entry-and-proof.  Each   *)
(* checks its parameters, asks a Trillian replica whose tree may be        *)
(* smaller than the one the client knows of, and checks the answer.        *)
(*                                                                         *)
(* A leaf is named by its index, and a Merkle proof by what it proves:     *)
(* <<"in", i, n>>, <<"cons", m, n>>, or None where the replica sent none.  *)
(***************************************************************************)
EXTENDS Integers, Sequences, FiniteSets, SequencesExt

CONSTANTS
  MaxGetEntriesAllowed,
  MaxInt,   \* largest int64
  MaxSize,  \* bound: size of a replica's tree
  None

ASSUME ReadsAssumption ==
  /\ MaxGetEntriesAllowed \in 1 .. MaxInt
  /\ MaxInt \in Nat
  /\ MaxSize \in 0 .. MaxInt - 1
  /\ None \notin Int /\ None \notin {"in", "cons"} \X Nat \X Nat

VARIABLES
  align, byRange,  \* flags align_getentries and by_range
  answer           \* the request being answered, and its answer

readVars == <<align, byRange, answer>>

-----------------------------------------------------------------------------
(* Parameters.  They are int64, so sums wrap around.                        *)

Wrap(n) == ((n + MaxInt + 1) % (2 * (MaxInt + 1))) - MaxInt - 1

\* Go's remainder has the sign of the dividend.
Rem(a, b) == IF a >= 0 THEN a % b ELSE -((-a) % b)

\* The end that parseGetEntriesRange settles for, or None.
ParseGetEntriesRange(start, end) ==
  LET count == Wrap(Wrap(end - start) + 1)
      cut   == IF count > MaxGetEntriesAllowed THEN Wrap(start + MaxGetEntriesAllowed - 1) ELSE end
      over  == Rem(Wrap(cut + 1), MaxGetEntriesAllowed)
  IN  IF start < 0 \/ end < 0 \/ start > end THEN None
      ELSE IF align /\ count >= MaxGetEntriesAllowed THEN Wrap(cut - over) ELSE cut

-----------------------------------------------------------------------------
(* The endpoints.  An answer is a status and, if that is OK, a body.       *)

Status(s) == [status |-> s]
Body(b) == [status |-> "OK", body |-> b]

\* Leaves are accepted only as an unbroken run from start, not longer than
\* asked for (the loops of getEntries and of sortLeafRange).
RunFrom(start, end, leaves) ==
  IF /\ Len(leaves) <= Wrap(Wrap(end + 1) - start)
     /\ \A i \in 1 .. Len(leaves) : leaves[i] = start + i - 1
  THEN Body(leaves)
  ELSE Status("InternalServerError")

\* sort.Sort by index: at position i the i-th smallest.
Ascending(leaves) ==
  [i \in 1 .. Len(leaves) |->
     CHOOSE x \in ToSet(leaves) : /\ Cardinality({j \in DOMAIN leaves : leaves[j] < x}) < i
                                 /\ Cardinality({j \in DOMAIN leaves : leaves[j] <= x}) >= i]

\* A slip: leaves asked for by index are not sorted.
GetEntriesUnsorted(start, end, root, leaves) ==
  LET last == ParseGetEntriesRange(start, end)
  IN  IF last = None \/ root <= start THEN Status("BadRequest") ELSE RunFrom(start, last, leaves)

\* getEntries, with the leaves that the replica returns.
GetEntriesResult(start, end, root, leaves) ==
  LET last  == ParseGetEntriesRange(start, end)
      count == Wrap(Wrap(last + 1) - start)
  IN  CASE last = None -> Status("BadRequest")
        [] last # None /\ count < 0 -> IF byRange THEN Status("BadRequest") ELSE Status("panic")
        [] OTHER ->
             IF root <= start THEN Status("BadRequest")
             ELSE RunFrom(start, last, IF byRange THEN leaves ELSE Ascending(leaves))

\* A replica has a proof only of what is in its tree; one of no hashes is
\* the one for a tree of one entry, or for equal sizes.
InclusionProof(i, n, root) == IF n <= root /\ i < n THEN <<"in", i, n>> ELSE None
ConsistencyProof(m, n, root) == IF n <= root THEN <<"cons", m, n>> ELSE None
NoHashes(proof) == proof[1] = "in" /\ proof[3] = 1

\* getProofByHash.  Index i is the lowest one with the hash; an index that is
\* not in the tree stands for an unknown hash.
GetProofByHashResult(i, n, root) ==
  LET proof == InclusionProof(i, n, root)
  IN  CASE n < 1 -> Status("BadRequest")
        [] n >= 1 /\ root < n -> Status("NotFound")
        [] n >= 1 /\ root >= n /\ proof = None -> Status("NotFound")
        [] OTHER -> Body(proof)

\* getSTHConsistency.  From 0 the proof is empty and Trillian is not asked; a
\* missing proof would be dereferenced.
GetSTHConsistencyResult(m, n, root) ==
  LET proof == ConsistencyProof(m, n, root)
  IN  CASE m < 0 \/ n < m -> Status("BadRequest")
        [] m = 0 /\ n >= 0 -> Body(<<"cons", 0, n>>)
        [] m > 0 /\ n >= m /\ root < n -> Status("BadRequest")
        [] OTHER -> IF proof = None THEN Status("panic") ELSE Body(proof)

\* getEntryAndProof.
GetEntryAndProofResult(i, n, root) ==
  LET proof == InclusionProof(i, n, root)
  IN  CASE n <= 0 \/ i < 0 \/ i >= n -> Status("BadRequest")
        [] n > 0 /\ i \in 0 .. n - 1 /\ root < n -> Status("BadRequest")
        [] OTHER -> IF proof = None \/ (n > 1 /\ NoHashes(proof))
                    THEN Status("InternalServerError") ELSE Body(<<i, proof>>)

-----------------------------------------------------------------------------
(* Requests, one at a time.                                                 *)

NoRequest == [op |-> "none"]

ReadInit ==
  /\ align \in BOOLEAN
  /\ byRange \in BOOLEAN
  /\ answer = NoRequest

Answer(op, a, b, root, reply, result) ==
  [op |-> op, a |-> a, b |-> b, root |-> root, reply |-> reply, result |-> result]

\* The replica answers with any leaves: some missing, unsorted, or repeated.
GetEntries ==
  \E start, end \in -1 .. MaxInt, root \in 0 .. MaxSize,
     reply \in SeqOf(0 .. MaxSize, MaxGetEntriesAllowed + 1) :
    answer' = Answer("entries", start, end, root, reply, GetEntriesResult(start, end, root, reply))

GetProofByHash ==
  \E i \in 0 .. MaxSize, n \in -1 .. MaxSize + 1, root \in 0 .. MaxSize :
    answer' = Answer("hash", i, n, root, <<>>, GetProofByHashResult(i, n, root))

GetSTHConsistency ==
  \E m, n \in -1 .. MaxSize + 1, root \in 0 .. MaxSize :
    answer' = Answer("consistency", m, n, root, <<>>, GetSTHConsistencyResult(m, n, root))

GetEntryAndProof ==
  \E i, n \in -1 .. MaxSize + 1, root \in 0 .. MaxSize :
    answer' = Answer("entry", i, n, root, <<>>, GetEntryAndProofResult(i, n, root))

ReadNext ==
  \/ /\ answer = NoRequest
     /\ GetEntries \/ GetProofByHash \/ GetSTHConsistency \/ GetEntryAndProof
     /\ UNCHANGED <<align, byRange>>
  \/ /\ answer # NoRequest
     /\ answer' = NoRequest
     /\ UNCHANGED <<align, byRange>>

-----------------------------------------------------------------------------
(* Properties.                                                              *)

OK == answer.result.status = "OK"

\* The largest int64 is left out: there end - start + 1 and end + 1 wrap.
EntriesAsked == answer.op = "entries" /\ answer.b < MaxInt

\* getEntries: a client that follows the answers sees every entry once and in
\* order.  What is served are entries from start on, not beyond end and not
\* more than MaxGetEntriesAllowed, whatever the replica returned.
EntriesExact ==
  EntriesAsked /\ OK =>
    LET body == answer.result.body
    IN  /\ \A i \in 1 .. Len(body) : body[i] = answer.a + i - 1
        /\ answer.a + Len(body) - 1 <= answer.b
        /\ Len(body) <= MaxGetEntriesAllowed

\* ... and if the replica sent the leaves of the range it was asked for, in any
\* order if asked by index, they are served: neither the alignment of the range
\* nor the checks make a correct request for existing entries fail.
EntriesServed ==
  EntriesAsked /\ 0 <= answer.a /\ answer.a <= answer.b /\ answer.a < answer.root =>
    LET sent == ToSet(answer.reply)
        k    == Len(answer.reply)
        asked == ParseGetEntriesRange(answer.a, answer.b)
    IN  /\ asked \in answer.a .. answer.b
        /\ /\ sent = answer.a .. answer.a + k - 1
           /\ answer.a + k - 1 <= asked
           /\ byRange => IsSorted(answer.reply, <=)
           => OK

\* A proof that is served is the one asked for and is served whenever the
\* replica's tree is large enough; a replica that is behind makes the request
\* fail with a client error, never crash.
ProofsExact ==
  LET a == answer.a
      b == answer.b
      n == answer.root
      fails == answer.result.status \in {"BadRequest", "NotFound"}
  IN  CASE answer.op = "hash" ->
             IF a < b /\ b <= n THEN OK /\ answer.result.body = <<"in", a, b>> ELSE fails
        [] answer.op = "consistency" ->
             IF 0 <= a /\ a <= b /\ (b <= n \/ a = 0)
             THEN OK /\ answer.result.body = <<"cons", a, b>> ELSE fails
        [] answer.op = "entry" ->
             IF 0 <= a /\ a < b /\ b <= n
             THEN OK /\ answer.result.body = <<a, <<"in", a, b>>>> ELSE fails
        [] OTHER -> TRUE

\* The read endpoints serve exactly what was asked for, from a replica that may
\* be behind, unordered or wrong, and serve it whenever the replica had it.
ReadsExact == EntriesExact /\ EntriesServed /\ ProofsExact
=============================================================================
