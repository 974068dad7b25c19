----------------------- MODULE AuditRepository_proofs -----------------------
(***************************************************************************)
(* The safety of the audit trail (src/persistence/repository.py), for all  *)
(* sets of records and sessions, any records that PostgreSQL or its driver *)
(* refuses and any number of faults.  What a query selects from a tier is  *)
(* defined by recursion on the tier, so the first part proves by induction *)
(* what OfSession returns; the second relates the three tiers to what was  *)
(* saved.  Induction is over sets: those of the numbers, and of the        *)
(* sequences, for which the claim holds.                                   *)
(***************************************************************************)
EXTENDS AuditRepository, SequenceTheorems, WellFoundedInduction, TLAPS

(* Induction on the natural numbers, stated with a set. *)
LEMMA NatSetInduction ==
  ASSUME NEW S, 0 \in S, \A n \in Nat : n \in S => n + 1 \in S
  PROVE  Nat \subseteq S
<1> DEFINE T == {n \in Nat : n \notin S}
<1> SUFFICES ASSUME T # {}
             PROVE  FALSE
  OBVIOUS
<1>1. IsWellFoundedOn(OpToRel(<, Nat), Nat)
  BY NatLessThanWellFounded
<1>2. \E x \in T : \A y \in T : ~(<<y, x>> \in OpToRel(<, Nat))
  BY <1>1, WFMin
<1>3. PICK x \in T : \A y \in T : ~(y < x)
  BY <1>2 DEF OpToRel
<1>4. x - 1 \in Nat /\ x - 1 < x /\ (x - 1) + 1 = x
  OBVIOUS
<1>5. QED
  BY <1>3, <1>4

(* Induction on sequences, stated with a set. *)
LEMMA SeqSetInduction ==
  ASSUME NEW R, NEW T, <<>> \in T,
         \A q \in Seq(R), r \in R : q \in T => Append(q, r) \in T
  PROVE  Seq(R) \subseteq T
<1> DEFINE S == {n \in Nat : \A q \in Seq(R) : Len(q) = n => q \in T}
<1>1. 0 \in S
  BY EmptySeq
<1>2. ASSUME NEW n \in Nat, n \in S
      PROVE  n + 1 \in S
  <2> SUFFICES ASSUME NEW q \in Seq(R), Len(q) = n + 1
               PROVE  q \in T
    OBVIOUS
  <2>1. PICK p \in Seq(R), r \in R : q = Append(p, r)
    BY SequenceEmptyOrAppend
  <2>2. Len(p) = n
    BY <2>1
  <2>3. QED
    BY <1>2, <2>1, <2>2
<1> HIDE DEF S
<1>3. Nat \subseteq S
  BY <1>1, <1>2, NatSetInduction
<1>4. QED
  BY <1>3 DEF S

(* One step of the filter: what the first n records select, given what the *)
(* first n - 1 do.                                                         *)
Keep(s, kept, r) == IF SessionOf[r] = s THEN Append(kept, r) ELSE kept

(* f is the recursive function of OfSession, up to n.                      *)
IsFilter(s, seq, n, f) ==
  /\ f[0] = <<>>
  /\ \A i \in 1..n : f[i] = Keep(s, f[i - 1], seq[i])

(* The recursion of OfSession defines a function, whatever the length.     *)
LEMMA FilterExists ==
  ASSUME NEW s, NEW R, NEW seq \in Seq(R)
  PROVE  \E f \in [0..Len(seq) -> Seq(R)] : IsFilter(s, seq, Len(seq), f)
<1> DEFINE S == {n \in Nat : n <= Len(seq) =>
                   \E f \in [0..n -> Seq(R)] : IsFilter(s, seq, n, f)}
<1>1. 0 \in S
  <2>1. [i \in 0..0 |-> <<>>] \in [0..0 -> Seq(R)]
    BY EmptySeq
  <2>2. IsFilter(s, seq, 0, [i \in 0..0 |-> <<>>])
    BY DEF IsFilter
  <2>3. QED
    BY <2>1, <2>2
<1>2. ASSUME NEW n \in Nat, n \in S
      PROVE  n + 1 \in S
  <2> SUFFICES ASSUME n + 1 <= Len(seq)
               PROVE  \E f \in [0..(n + 1) -> Seq(R)] : IsFilter(s, seq, n + 1, f)
    OBVIOUS
  <2>1. PICK f \in [0..n -> Seq(R)] : IsFilter(s, seq, n, f)
    BY <1>2
  <2>2. seq[n + 1] \in R
    BY ElementOfSeq
  <2> DEFINE g == [i \in 0..(n + 1) |-> IF i <= n THEN f[i] ELSE Keep(s, f[n], seq[n + 1])]
  <2>3. Keep(s, f[n], seq[n + 1]) \in Seq(R)
    BY <2>1, <2>2 DEF Keep
  <2>4. g \in [0..(n + 1) -> Seq(R)]
    BY <2>1, <2>3
  <2>5. IsFilter(s, seq, n + 1, g)
    <3>1. g[0] = <<>>
      BY <2>1 DEF IsFilter
    <3>2. ASSUME NEW i \in 1..(n + 1)
          PROVE  g[i] = Keep(s, g[i - 1], seq[i])
      <4>1. CASE i <= n
        <5>1. g[i] = f[i] /\ g[i - 1] = f[i - 1]
          BY <4>1
        <5>2. QED
          BY <2>1, <4>1, <5>1 DEF IsFilter
      <4>2. CASE i = n + 1
        <5>1. g[i] = Keep(s, f[n], seq[n + 1]) /\ g[i - 1] = f[n] /\ i - 1 = n
          BY <4>2
        <5>2. QED
          BY <4>2, <5>1
      <4>3. QED
        BY <4>1, <4>2
    <3>3. QED
      BY <3>1, <3>2 DEF IsFilter
  <2>6. QED
    BY <2>4, <2>5
<1> HIDE DEF S
<1>3. Nat \subseteq S
  BY <1>1, <1>2, NatSetInduction
<1>4. Len(seq) \in S
  BY <1>3
<1>5. QED
  BY <1>4 DEF S

(* OfSession is the last value of that function.                           *)
LEMMA OfSessionIsFilter ==
  ASSUME NEW s, NEW R, NEW seq \in Seq(R)
  PROVE  \E f : IsFilter(s, seq, Len(seq), f) /\ OfSession(s, seq) = f[Len(seq)]
<1> DEFINE Value(f, n) == IF n = 0 THEN <<>>
                          ELSE IF SessionOf[seq[n]] = s THEN Append(f[n - 1], seq[n])
                               ELSE f[n - 1]
           Body(f) == [n \in 0..Len(seq) |-> Value(f, n)]
           upTo == CHOOSE f : f = Body(f)
<1>1. OfSession(s, seq) = upTo[Len(seq)]
  BY DEF OfSession
<1>2. \E f : f = Body(f)
  <2>1. PICK f \in [0..Len(seq) -> Seq(R)] : IsFilter(s, seq, Len(seq), f)
    BY FilterExists
  <2>2. ASSUME NEW n \in 0..Len(seq)
        PROVE  f[n] = Value(f, n)
    <3>1. CASE n = 0
      BY <2>1, <3>1 DEF IsFilter
    <3>2. CASE n # 0
      <4>1. n \in 1..Len(seq)
        BY <3>2
      <4>2. QED
        BY <2>1, <3>2, <4>1 DEF IsFilter, Keep
    <3>3. QED
      BY <3>1, <3>2
  <2> HIDE DEF Value
  <2>3. f = Body(f)
    BY <2>2
  <2>4. QED
    BY <2>3
<1>3. upTo = Body(upTo)
  BY <1>2, Zenon
<1> HIDE DEF upTo
<1>4. \A n \in 0..Len(seq) : upTo[n] = Value(upTo, n)
  BY <1>3
<1>5. Len(seq) \in Nat
  OBVIOUS
<1>6. upTo[0] = <<>>
  BY <1>4, <1>5
<1>7. ASSUME NEW i \in 1..Len(seq)
      PROVE  upTo[i] = Keep(s, upTo[i - 1], seq[i])
  <2>1. i \in 0..Len(seq) /\ i # 0
    BY <1>5
  <2>2. QED
    BY <1>4, <2>1 DEF Keep
<1>8. IsFilter(s, seq, Len(seq), upTo)
  BY <1>6, <1>7 DEF IsFilter
<1>9. QED
  BY <1>1, <1>8

(* Of no records none is a session's. *)
LEMMA OfSessionEmpty == \A s : OfSession(s, <<>>) = <<>>
  BY OfSessionIsFilter, EmptySeq DEF IsFilter

(* A record appended to a tier is appended to the records of its session   *)
(* and changes nothing for any other.                                      *)
LEMMA OfSessionAppend ==
  ASSUME NEW s, NEW R, NEW seq \in Seq(R), NEW r \in R
  PROVE  OfSession(s, Append(seq, r)) = Keep(s, OfSession(s, seq), r)
<1> DEFINE longer == Append(seq, r)
<1>1. /\ longer \in Seq(R) /\ Len(longer) = Len(seq) + 1 /\ longer[Len(seq) + 1] = r
      /\ \A i \in 1..Len(seq) : longer[i] = seq[i]
      /\ Len(seq) \in Nat
  BY AppendProperties
<1> HIDE DEF longer
<1>2. PICK f : IsFilter(s, seq, Len(seq), f) /\ OfSession(s, seq) = f[Len(seq)]
  BY OfSessionIsFilter
<1>3. PICK g : IsFilter(s, longer, Len(longer), g) /\ OfSession(s, longer) = g[Len(longer)]
  BY <1>1, OfSessionIsFilter
<1> DEFINE S == {n \in Nat : n <= Len(seq) => f[n] = g[n]}
<1>4. 0 \in S
  BY <1>2, <1>3 DEF IsFilter
<1>5. ASSUME NEW n \in Nat, n \in S
      PROVE  n + 1 \in S
  <2> SUFFICES ASSUME n + 1 <= Len(seq)
               PROVE  f[n + 1] = g[n + 1]
    OBVIOUS
  <2>1. f[n] = g[n] /\ longer[n + 1] = seq[n + 1] /\ n + 1 \in 1..Len(seq) /\ (n + 1) - 1 = n
    BY <1>1, <1>5
  <2>2. f[n + 1] = Keep(s, f[n], seq[n + 1])
    BY <1>2, <2>1 DEF IsFilter
  <2>3. g[n + 1] = Keep(s, g[n], longer[n + 1])
    BY <1>1, <1>3, <2>1 DEF IsFilter
  <2>4. QED
    BY <2>1, <2>2, <2>3
<1> HIDE DEF S
<1>6. Nat \subseteq S
  BY <1>4, <1>5, NatSetInduction
<1>7. f[Len(seq)] = g[Len(seq)]
  BY <1>1, <1>6 DEF S
<1>8. g[Len(longer)] = Keep(s, g[Len(seq)], r)
  <2>1. Len(longer) \in 1..Len(longer) /\ Len(longer) - 1 = Len(seq) /\ longer[Len(longer)] = r
    BY <1>1
  <2>2. QED
    BY <1>3, <2>1 DEF IsFilter
<1>9. QED
  BY <1>2, <1>3, <1>7, <1>8 DEF longer

-----------------------------------------------------------------------------
(* What an appended record adds to a tier. *)
LEMMA AppendOnce ==
  ASSUME NEW R, NEW q \in Seq(R), NEW r \in R
  PROVE  /\ Append(q, r) \in Seq(R)
         /\ ToSet(Append(q, r)) = ToSet(q) \cup {r}
         /\ IsInjective(q) /\ r \notin ToSet(q) => IsInjective(Append(q, r))
<1> DEFINE longer == Append(q, r)
<1>1. /\ longer \in Seq(R) /\ DOMAIN longer = 1..(Len(q) + 1) /\ longer[Len(q) + 1] = r
      /\ \A i \in 1..Len(q) : longer[i] = q[i]
      /\ DOMAIN q = 1..Len(q) /\ Len(q) \in Nat
  BY AppendProperties
<1> HIDE DEF longer
<1>2. ToSet(longer) = ToSet(q) \cup {r}
  BY <1>1 DEF ToSet
<1>3. ASSUME IsInjective(q), r \notin ToSet(q)
      PROVE  IsInjective(longer)
  BY <1>1, <1>3 DEF IsInjective, ToSet
<1>4. QED
  BY <1>1, <1>2, <1>3 DEF longer

(* The order in which rows are returned changes nothing else. *)
LEMMA ReverseOnce ==
  ASSUME NEW R, NEW q \in Seq(R)
  PROVE  /\ ToSet(Reverse(q)) = ToSet(q)
         /\ IsInjective(q) => IsInjective(Reverse(q))
         /\ Reverse(q) = <<>> <=> q = <<>>
<1> DEFINE back == Reverse(q)
<1>1. /\ DOMAIN back = 1..Len(q) /\ DOMAIN q = 1..Len(q) /\ Len(q) \in Nat
      /\ \A i \in 1..Len(q) : back[i] = q[(Len(q) - i) + 1]
  BY DEF Reverse
<1>2. \A i \in 1..Len(q) : /\ (Len(q) - i) + 1 \in 1..Len(q)
                           /\ (Len(q) - ((Len(q) - i) + 1)) + 1 = i
  BY <1>1
<1>3. back = <<>> <=> q = <<>>
  BY DEF Reverse
<1> HIDE DEF back
<1>4. ToSet(back) = ToSet(q)
  BY <1>1, <1>2 DEF ToSet
<1>5. IsInjective(q) => IsInjective(back)
  BY <1>1, <1>2 DEF IsInjective
<1>6. QED
  BY <1>3, <1>4, <1>5 DEF back

(* A query of a tier selects the records of the session and no others,     *)
(* each as often as the tier has it (the loops over the lines of the file  *)
(* and over the list, and the WHERE clause of the query).                  *)
LEMMA OfSessionSelects ==
  ASSUME NEW s, NEW R, NEW q \in Seq(R)
  PROVE  /\ OfSession(s, q) \in Seq(R)
         /\ ToSet(OfSession(s, q)) = {r \in ToSet(q) : SessionOf[r] = s}
         /\ IsInjective(q) => IsInjective(OfSession(s, q))
<1> DEFINE T == {p \in Seq(R) :
                   /\ OfSession(s, p) \in Seq(R)
                   /\ ToSet(OfSession(s, p)) = {r \in ToSet(p) : SessionOf[r] = s}
                   /\ IsInjective(p) => IsInjective(OfSession(s, p))}
<1>1. <<>> \in T
  <2>1. OfSession(s, <<>>) = <<>> /\ <<>> \in Seq(R)
    BY OfSessionEmpty, EmptySeq
  <2>2. ToSet(<<>>) = {}
    BY DEF ToSet
  <2>3. QED
    BY <2>1, <2>2
<1>2. ASSUME NEW p \in Seq(R), NEW r \in R, p \in T
      PROVE  Append(p, r) \in T
  <2>1. OfSession(s, Append(p, r)) = Keep(s, OfSession(s, p), r)
    BY OfSessionAppend
  <2>2. /\ OfSession(s, p) \in Seq(R)
        /\ ToSet(OfSession(s, p)) = {x \in ToSet(p) : SessionOf[x] = s}
        /\ IsInjective(p) => IsInjective(OfSession(s, p))
    BY <1>2
  <2>3. Append(p, r) \in Seq(R) /\ ToSet(Append(p, r)) = ToSet(p) \cup {r}
    BY AppendOnce
  <2>4. IsInjective(Append(p, r)) => IsInjective(p) /\ r \notin ToSet(p)
    <3>1. /\ DOMAIN Append(p, r) = 1..(Len(p) + 1) /\ Append(p, r)[Len(p) + 1] = r
          /\ \A i \in 1..Len(p) : Append(p, r)[i] = p[i]
          /\ DOMAIN p = 1..Len(p) /\ Len(p) \in Nat
      BY AppendProperties
    <3>2. QED
      BY <3>1 DEF IsInjective, ToSet
  <2>5. CASE SessionOf[r] = s
    <3>1. OfSession(s, Append(p, r)) = Append(OfSession(s, p), r)
      BY <2>1, <2>5 DEF Keep
    <3>2. /\ Append(OfSession(s, p), r) \in Seq(R)
          /\ ToSet(Append(OfSession(s, p), r)) = ToSet(OfSession(s, p)) \cup {r}
          /\ IsInjective(OfSession(s, p)) /\ r \notin ToSet(OfSession(s, p)) =>
               IsInjective(Append(OfSession(s, p), r))
      BY <2>2, AppendOnce
    <3>3. QED
      BY <2>2, <2>3, <2>4, <2>5, <3>1, <3>2
  <2>6. CASE SessionOf[r] # s
    <3>1. OfSession(s, Append(p, r)) = OfSession(s, p)
      BY <2>1, <2>6 DEF Keep
    <3>2. QED
      BY <2>2, <2>3, <2>4, <2>6, <3>1
  <2>7. QED
    BY <2>5, <2>6
<1> HIDE DEF T
<1>3. q \in T
  BY <1>1, <1>2, SeqSetInduction
<1>4. QED
  BY <1>3 DEF T
-----------------------------------------------------------------------------
(* No record is twice in a tier. *)
SavedOnce == IsInjective(rows) /\ IsInjective(file) /\ IsInjective(list)

(* The file has every record saved since the last clear, but for those     *)
(* whose append failed; the other tiers have no others.                    *)
TiersAreSaved ==
  /\ ToSet(file) = saved \ unwritten
  /\ ToSet(rows) \subseteq saved /\ ToSet(list) \subseteq saved
  /\ unwritten \subseteq saved

(* The first process has connected before it saves anything, and while its *)
(* connection is open no record has missed the table but those the driver  *)
(* refused to send.                                                        *)
RowsComplete ==
  ~restarted =>
    /\ conn = "unset" => saved = {}
    /\ conn = "open" => saved \ Unsendable \subseteq ToSet(rows)

AuditInv == AuditTypeOK /\ SavedOnce /\ TiersAreSaved /\ RowsComplete

(* An empty tier. *)
LEMMA EmptyTier == <<>> \in Seq(Records) /\ ToSet(<<>>) = {} /\ IsInjective(<<>>)
  BY EmptySeq DEF ToSet, IsInjective

(* A repository starts with nothing saved and no connection (__init__). *)
LEMMA InitAudit ==
  ASSUME AuditInit
  PROVE  AuditInv
<1>1. rows = <<>> /\ file = <<>> /\ list = <<>> /\ saved = {} /\ unwritten = {}
  BY DEF AuditInit
<1>2. AuditTypeOK
  <2>1. auditFaults = 0 /\ conn = "unset" /\ pgUp \in BOOLEAN /\ restarted = FALSE
    BY DEF AuditInit
  <2>2. auditFaults \in 0..MaxAuditFaults
    BY <2>1, AuditAssumption
  <2>3. QED
    BY <1>1, <2>1, <2>2, EmptyTier, Zenon DEF AuditTypeOK
<1>3. QED
  BY <1>1, <1>2, EmptyTier DEF AuditInv, SavedOnce, TiersAreSaved, RowsComplete

(* A fault stays within the bound. *)
LEMMA FaultLeft ==
  ASSUME AuditInv
  PROVE  /\ auditFaults' = auditFaults => auditFaults' \in 0..MaxAuditFaults
         /\ auditFaults < MaxAuditFaults /\ auditFaults' = auditFaults + 1 =>
              auditFaults' \in 0..MaxAuditFaults
<1>1. auditFaults \in 0..MaxAuditFaults
  BY DEF AuditInv, AuditTypeOK
<1>2. QED
  BY <1>1, AuditAssumption

(* A record is saved, whether or not the table and the file take it        *)
(* (save).                                                                 *)
LEMMA SaveKeeps ==
  ASSUME AuditInv, NEW r \in Records, Save(r)
  PROVE  AuditInv'
<1>1. PICK appended \in BOOLEAN : SaveRecord(r, appended)
  BY DEF Save
<1>2. /\ r \notin saved
      /\ auditFaults' \in 0..MaxAuditFaults
  BY FaultLeft, Zenon DEF Save
<1>3. /\ rows \in Seq(Records) /\ file \in Seq(Records) /\ list \in Seq(Records)
      /\ r \notin ToSet(rows) /\ r \notin ToSet(file) /\ r \notin ToSet(list)
  BY <1>2 DEF AuditInv, AuditTypeOK, TiersAreSaved
<1>4. ASSUME NEW q, q \in Seq(Records), IsInjective(q), r \notin ToSet(q)
      PROVE  /\ Append(q, r) \in Seq(Records) /\ IsInjective(Append(q, r))
             /\ ToSet(Append(q, r)) = ToSet(q) \cup {r}
  BY <1>4, AppendOnce
<1>5. /\ rows' = IF CanInsert(r) THEN Append(rows, r) ELSE rows
      /\ file' = IF appended THEN Append(file, r) ELSE file
      /\ list' = Append(list, r)
      /\ saved' = saved \cup {r}
      /\ unwritten' = IF appended THEN unwritten ELSE unwritten \cup {r}
      /\ conn' = ConnectionAfter(r) /\ UNCHANGED <<pgUp, restarted>>
  BY <1>1 DEF SaveRecord
<1>6. conn' \in {"unset", "none", "open", "failed"}
  BY <1>5 DEF ConnectionAfter, Connection, AuditInv, AuditTypeOK
<1>7. AuditTypeOK'
  BY <1>2, <1>3, <1>4, <1>5, <1>6 DEF AuditInv, AuditTypeOK, SavedOnce
<1>8. SavedOnce'
  BY <1>3, <1>4, <1>5 DEF AuditInv, SavedOnce
<1>9. /\ ToSet(rows') = ToSet(rows) \cup (IF CanInsert(r) THEN {r} ELSE {})
      /\ ToSet(file') = ToSet(file) \cup (IF appended THEN {r} ELSE {})
      /\ ToSet(list') = ToSet(list) \cup {r}
  BY <1>3, <1>4, <1>5 DEF AuditInv, SavedOnce
<1>10. TiersAreSaved'
  BY <1>2, <1>5, <1>9 DEF AuditInv, TiersAreSaved
<1>11. RowsComplete'
  BY <1>5, <1>9
     DEF AuditInv, RowsComplete, ConnectionAfter, Connection, CanInsert
<1>12. QED
  BY <1>7, <1>8, <1>10, <1>11 DEF AuditInv

(* The file and the list are emptied, the table is not (clear). *)
LEMMA ClearKeeps ==
  ASSUME AuditInv, Clear
  PROVE  AuditInv'
<1>1. PICK truncated \in BOOLEAN : ClearRecords(truncated)
  BY DEF Clear
<1>2. auditFaults' \in 0..MaxAuditFaults
  BY FaultLeft, Zenon DEF Clear
<1>3. /\ list' = <<>> /\ file' = (IF truncated THEN <<>> ELSE file)
      /\ saved' = ToSet(rows) \cup ToSet(file') /\ unwritten' = saved' \ ToSet(file')
      /\ UNCHANGED <<rows, pgUp, conn, restarted>>
  BY <1>1 DEF ClearRecords
<1>4. file' \in Seq(Records) /\ IsInjective(file') /\ ToSet(file') \subseteq saved
  BY <1>3, EmptyTier DEF AuditInv, AuditTypeOK, SavedOnce, TiersAreSaved
<1>5. saved' \subseteq saved
  BY <1>3, <1>4 DEF AuditInv, TiersAreSaved
<1>6. AuditTypeOK'
  BY <1>2, <1>3, <1>4, <1>5, EmptyTier DEF AuditInv, AuditTypeOK
<1>7. SavedOnce' /\ TiersAreSaved'
  BY <1>3, <1>4, EmptyTier DEF AuditInv, SavedOnce, TiersAreSaved
<1>8. RowsComplete'
  BY <1>3, <1>5 DEF AuditInv, RowsComplete
<1>9. QED
  BY <1>6, <1>7, <1>8 DEF AuditInv

(* Queries connect, the server stops and returns, processes come and go.   *)
LEMMA OthersKeepAudit ==
  ASSUME AuditInv, Query \/ PostgresStops \/ PostgresReturns \/ AuditRestart
  PROVE  AuditInv'
<1>1. /\ UNCHANGED <<rows, file, saved, unwritten>>
      /\ list' = list \/ list' = <<>>
      /\ pgUp' \in BOOLEAN /\ restarted' \in BOOLEAN
      /\ conn' \in {"unset", "none", "open", "failed"}
  BY DEF Query, PostgresStops, PostgresReturns, AuditRestart, NewProcess, Connection,
         AuditInv, AuditTypeOK
<1>2. auditFaults' \in 0..MaxAuditFaults
  BY FaultLeft DEF Query, PostgresStops, PostgresReturns, AuditRestart
<1>3. AuditTypeOK' /\ SavedOnce' /\ TiersAreSaved'
  BY <1>1, <1>2, EmptyTier DEF AuditInv, AuditTypeOK, SavedOnce, TiersAreSaved
<1>4. RowsComplete'
  BY <1>1 DEF Query, PostgresStops, PostgresReturns, AuditRestart, NewProcess, Connection,
              AuditInv, RowsComplete
<1>5. QED
  BY <1>3, <1>4 DEF AuditInv

(* In every reachable state of the audit trail the tiers hold what save    *)
(* and clear left in them, each record once, and the table of a first      *)
(* process that is connected lacks at most what was never sent to it.      *)
THEOREM AuditInvariant == AuditSpec => []AuditInv
<1>1. AuditInv /\ [AuditNext]_auditVars => AuditInv'
  <2> SUFFICES ASSUME AuditInv, [AuditNext]_auditVars
               PROVE  AuditInv'
    OBVIOUS
  <2>1. CASE UNCHANGED auditVars
    BY <2>1 DEF auditVars, AuditInv, AuditTypeOK, SavedOnce, TiersAreSaved, RowsComplete
  <2>2. QED
    BY <2>1, SaveKeeps, ClearKeeps, OthersKeepAudit DEF AuditNext
<1>2. QED
  BY <1>1, InitAudit, PTL DEF AuditSpec

(* Every variable of the audit trail has its type. *)
THEOREM AuditTypeCorrect == AuditSpec => []AuditTypeOK
<1>1. AuditInv => AuditTypeOK
  BY DEF AuditInv
<1>2. QED
  BY <1>1, AuditInvariant, PTL

(* A query returns the session's records of one tier. *)
LEMMA FoundInTier ==
  ASSUME AuditInv, NEW s
  PROVE  /\ IsInjective(Found(s))
         /\ ToSet(Found(s)) =
              IF Connection = "open" /\ \E r \in ToSet(rows) : SessionOf[r] = s
              THEN {r \in ToSet(rows) : SessionOf[r] = s}
              ELSE IF \E r \in ToSet(file) : SessionOf[r] = s
              THEN {r \in ToSet(file) : SessionOf[r] = s}
              ELSE {r \in ToSet(list) : SessionOf[r] = s}
<1>1. rows \in Seq(Records) /\ file \in Seq(Records) /\ list \in Seq(Records)
  BY DEF AuditInv, AuditTypeOK
<1>2. ASSUME NEW q \in Seq(Records), IsInjective(q)
      PROVE  /\ OfSession(s, q) \in Seq(Records) /\ IsInjective(OfSession(s, q))
             /\ ToSet(OfSession(s, q)) = {r \in ToSet(q) : SessionOf[r] = s}
             /\ OfSession(s, q) # <<>> <=> \E r \in ToSet(q) : SessionOf[r] = s
  <2>1. /\ OfSession(s, q) \in Seq(Records) /\ IsInjective(OfSession(s, q))
        /\ ToSet(OfSession(s, q)) = {r \in ToSet(q) : SessionOf[r] = s}
    BY <1>2, OfSessionSelects
  <2>2. ToSet(OfSession(s, q)) # {} <=> OfSession(s, q) # <<>>
    BY <2>1 DEF ToSet
  <2>3. QED
    BY <2>1, <2>2
<1>3. /\ ToSet(Reverse(OfSession(s, rows))) = ToSet(OfSession(s, rows))
      /\ IsInjective(Reverse(OfSession(s, rows)))
      /\ Reverse(OfSession(s, rows)) = <<>> <=> OfSession(s, rows) = <<>>
  BY <1>1, <1>2, ReverseOnce DEF AuditInv, SavedOnce
<1>4. Found(s) = IF Connection = "open" /\ OfSession(s, rows) # <<>>
                 THEN Reverse(OfSession(s, rows))
                 ELSE IF OfSession(s, file) # <<>> THEN OfSession(s, file)
                 ELSE OfSession(s, list)
  BY <1>3 DEF Found
<1>5. QED
  BY <1>1, <1>2, <1>3, <1>4 DEF AuditInv, SavedOnce

(* Within the life of one process get_by_session_id returns every record   *)
(* of the session that was appended to the file and that the driver could  *)
(* send, although it reads one tier only: the connection is open only      *)
(* while the server has refused no insert.                                 *)
THEOREM WithinProcessComplete == AuditSpec => []CompleteWithinProcess
<1>1. AuditInv => CompleteWithinProcess
  <2> SUFFICES ASSUME AuditInv, ~restarted, NEW s \in Sessions
               PROVE  SavedOf(s) \ (unwritten \cup Unsendable) \subseteq ToSet(Found(s))
    BY DEF CompleteWithinProcess
  <2>1. /\ ToSet(file) = saved \ unwritten
        /\ Connection = "open" => saved \ Unsendable \subseteq ToSet(rows)
    BY DEF AuditInv, TiersAreSaved, RowsComplete, Connection
  <2>2. QED
    BY <2>1, FoundInTier DEF SavedOf
<1>2. QED
  BY <1>1, AuditInvariant, PTL

(* get_by_session_id returns no record twice, none of another session or   *)
(* tenant, and none that was not saved since the last clear.               *)
THEOREM NothingIsInvented == AuditSpec => []NothingInvented
<1>1. AuditInv => NothingInvented
  BY FoundInTier DEF NothingInvented, SavedOf, AuditInv, TiersAreSaved
<1>2. QED
  BY <1>1, AuditInvariant, PTL

(* get_by_session_id misses a record of the file only while the connection *)
(* is open and the table has other rows of its session.                    *)
THEOREM OnlyRowsHide == AuditSpec => []HiddenOnlyByRows
<1>1. AuditInv => HiddenOnlyByRows
  <2> SUFFICES ASSUME AuditInv, NEW r \in saved \ unwritten,
                      ~(Connection = "open" /\ OfSession(SessionOf[r], rows) # <<>>)
               PROVE  r \in ToSet(Found(SessionOf[r]))
    BY DEF HiddenOnlyByRows
  <2>1. r \in ToSet(file)
    BY DEF AuditInv, TiersAreSaved
  <2>2. OfSession(SessionOf[r], rows) = <<>> =>
          ~\E x \in ToSet(rows) : SessionOf[x] = SessionOf[r]
    <3>1. ToSet(OfSession(SessionOf[r], rows)) =
            {x \in ToSet(rows) : SessionOf[x] = SessionOf[r]}
      BY OfSessionSelects DEF AuditInv, AuditTypeOK
    <3>2. QED
      BY <3>1, EmptyTier
  <2>3. QED
    BY <2>1, <2>2, FoundInTier
<1>2. QED
  BY <1>1, AuditInvariant, PTL

=============================================================================
