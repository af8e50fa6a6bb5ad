------------------------ MODULE CredentialPoolProofs ------------------------
(***************************************************************************)
(* What holds of a provider's credentials for every table, every set of    *)
(* requests and however often tokens are renewed: one request at a time    *)
(* renews a token, renewals are kept, and a request that gives up has been *)
(* sent with every credential.  And what holds of the gateway whose tables *)
(* are edited while it runs, for every registry, table and combo: it tells *)
(* when to restart, it routes what it lists, and embeddings add up.        *)
(***************************************************************************)
EXTENDS CredentialPool, Administration, FiniteSetTheorems, WellFoundedInduction, TLAPS

-----------------------------------------------------------------------------
(* The inductive invariant *)

Credentials == [connection : Nat, access : Nat, refresh : Nat]
States == {"idle", "try", "call", "lock", "refresh", "reply", "recall", "done"}
Outcomes == {"none", "invalid", "ok", "failed", "left"}

ExecutorOK ==
    /\ executor \in {"grok", "openai", "gemini", "exa"} /\ key \in BOOLEAN
    /\ rows \in Seq(RowsOfTable)
    /\ pool \in Seq(Credentials) /\ Len(pool) <= Len(rows)
    /\ cursor \in Nat /\ (pool # <<>> => cursor < Size)
    /\ restarted \in BOOLEAN
    /\ holder \in [Connections -> Requests \union {NoRequest}]

TaskOK ==
    /\ pc \in [Requests -> States] /\ outcome \in [Requests -> Outcomes]
    /\ mode \in [Requests -> {"complete", "stream"}]
    /\ index \in [Requests -> Nat] /\ held \in [Requests -> Credentials]
    /\ tries \in [Requests -> Nat] /\ tried \in [Requests -> SUBSET Nat]
    /\ crossed \in [Requests -> BOOLEAN]

ProviderOK ==
    /\ live \in [Connections -> [access : Nat, refresh : Nat]]
    /\ fresh \in [Connections -> BOOLEAN]
    /\ lost \subseteq Connections

TypeOK == ExecutorOK /\ TaskOK /\ ProviderOK

\* Every credential is of a connection of its own.
PoolInv ==
    /\ \A i \in DOMAIN pool : pool[i].connection \in Connections
    /\ \A i, j \in DOMAIN pool : pool[i].connection = pool[j].connection => i = j

Renewing(r) == pc[r] \in {"refresh", "reply"}

\* A request that was sent with a credential still has a place of it, and its
\* lock exactly while it renews it.
HeldInv ==
    /\ \A r \in Requests :
         \/ index[r] = None /\ held[r] = NoCredential
         \/ /\ index[r] \in DOMAIN pool
            /\ held[r].connection = pool[index[r]].connection
    /\ \A r \in Requests : pc[r] \in {"lock", "refresh", "reply", "recall"} => index[r] # None
    /\ \A r \in Requests : Renewing(r) => holder[held[r].connection] = r
    /\ \A c \in Connections, r \in Requests :
         holder[c] = r => Renewing(r) /\ held[r].connection = c

\* The refresh token the provider expects next is in memory, and in the table if
\* there is a key, unless it is being renewed or is lost.
TokensOf(c) ==
    c \notin lost \union BeingRenewed =>
        /\ key => rows[c].refresh = live[c].refresh
        /\ \A i \in DOMAIN pool : pool[i].connection = c => pool[i].refresh = live[c].refresh

\* Without a key the table stays as old as it was.
AgeOf(c) ==
    ~key => /\ rows[c].access <= live[c].access
            /\ rows[c].access = live[c].access => rows[c].refresh = live[c].refresh

\* Who renews sends the token that is expected.
SentBy(r) ==
    pc[r] = "refresh" /\ held[r].connection \notin lost =>
        held[r].refresh = live[held[r].connection].refresh

TokenInv ==
    /\ \A c \in Connections : TokensOf(c) /\ AgeOf(c)
    /\ \A r \in Requests : SentBy(r)

\* A request that no other one crosses is sent with one credential after the other,
\* from one of them on and around.
Around(r) ==
    \E s \in 0 .. Size - 1 :
        \/ /\ s + tries[r] < Size
           /\ cursor = s + tries[r] /\ tried[r] = s + 1 .. s + tries[r]
        \/ /\ s + tries[r] >= Size
           /\ cursor = s + tries[r] - Size
           /\ tried[r] = (s + 1 .. Size) \union (1 .. s + tries[r] - Size)

AtLeastOne(n) == IF n = 0 THEN 1 ELSE n

\* How far a request's tries have come, and what a failed one has tried.
TriesOf(r) ==
    /\ pc[r] = "idle" => tries[r] = 0 /\ tried[r] = {} /\ outcome[r] = "none"
    /\ pc[r] \in {"idle", "try"} => tries[r] < AtLeastOne(Len(rows))
    /\ pc[r] = "try" => tries[r] < AtLeastOne(Size)
    /\ tries[r] <= AtLeastOne(Len(rows))
    /\ Running(r) => tries[r] <= AtLeastOne(Size)
    /\ outcome[r] = "failed" => pc[r] = "done"
    /\ ~restarted /\ ~crossed[r] /\ pool # <<>> =>
         /\ Running(r) => Around(r)
         /\ outcome[r] = "failed" /\ (mode[r] = "complete" \/ executor = "exa")
               => tried[r] = 1 .. Size

TriesInv == \A r \in Requests : TriesOf(r)

IInv == TypeOK /\ PoolInv /\ HeldInv /\ TokenInv /\ TriesInv

-----------------------------------------------------------------------------
(* Loading *)

\* The bound on the tries is the larger of the size and one.
LEMMA MaxOfOne == \A n \in Nat : Max({n, 1}) = AtLeastOne(n)
<1>1. SUFFICES ASSUME NEW n \in Nat PROVE Max({n, 1}) = IF n = 0 THEN 1 ELSE n
  BY DEF AtLeastOne
<1>2. /\ \A x \in {n, 1} : (\A y \in {n, 1} : x >= y) => x = IF n = 0 THEN 1 ELSE n
      /\ \E x \in {n, 1} : \A y \in {n, 1} : x >= y
  <2>1. CASE n = 0
    BY <2>1
  <2>2. CASE n >= 1
    BY <2>2
  <2>. QED BY <2>1, <2>2
<1>. QED BY <1>2 DEF Max

\* Numbers in a finite set have a rank, one for each number up to their count.
LEMMA Ranks ==
  ASSUME NEW S \in SUBSET Nat, IsFiniteSet(S)
  PROVE  /\ Cardinality(S) \in Nat
         /\ \A i \in 1 .. Cardinality(S) :
              \E c \in S : Cardinality({d \in S : d <= c}) = i
<1> DEFINE Below(c) == {d \in S : d <= c}
           n == Cardinality(S)
           f == [c \in S |-> Cardinality(Below(c))]
<1>1. n \in Nat
  BY FS_CardinalityType
<1>2. ASSUME NEW c \in S
      PROVE  /\ IsFiniteSet(Below(c)) /\ Cardinality(Below(c)) \in 1 .. n
  <2>1. Below(c) \in SUBSET S /\ Below(c) # {}
    OBVIOUS
  <2>2. IsFiniteSet(Below(c)) /\ Cardinality(Below(c)) <= n
    BY <2>1, FS_Subset
  <2>3. Cardinality(Below(c)) \in Nat /\ Cardinality(Below(c)) # 0
    BY <2>1, <2>2, FS_CardinalityType, FS_EmptySet
  <2>. QED BY <1>1, <2>2, <2>3
<1>3. ASSUME NEW c \in S, NEW e \in S, c < e
      PROVE  Cardinality(Below(c)) # Cardinality(Below(e))
  <2>1. /\ \A d \in S : d <= c => d <= e
        /\ e <= e /\ ~(e <= c)
    BY <1>3
  <2>2. Below(c) \in SUBSET Below(e) /\ e \in Below(e) /\ e \notin Below(c)
    BY <2>1
  <2>. QED BY <1>2, <2>2, FS_Subset
<1>4. f \in Injection(S, 1 .. n)
  <2>1. f \in [S -> 1 .. n]
    BY <1>2
  <2>2. \A c, e \in S : f[c] = f[e] => c = e
    <3>1. \A c, e \in S : c < e \/ e < c \/ c = e
      OBVIOUS
    <3>. QED BY <1>3, <3>1
  <2>. QED BY <2>1, <2>2 DEF Injection, IsInjective
<1>5. IsFiniteSet(1 .. n) /\ Cardinality(1 .. n) = n
  BY <1>1, FS_Interval
<1>6. f \in Surjection(S, 1 .. n)
  <2>. HIDE DEF f
  <2>. QED BY <1>4, <1>5, FS_Injection
<1>7. \A i \in 1 .. n : \E c \in S : f[c] = i
  <2>. HIDE DEF f
  <2>. QED BY <1>6 DEF Surjection
<1>. QED BY <1>1, <1>7

\* The pool that is loaded has a place for every row that can be served, and no
\* two for one.
LEMMA Loaded ==
  ASSUME NEW table \in Seq(RowsOfTable), NEW p, p = LoadCredentials(table)
  PROVE  /\ p \in Seq(Credentials) /\ Len(p) <= Len(table)
         /\ \A i \in DOMAIN p : /\ p[i].connection \in DOMAIN table
                                 /\ p[i] = Credential(p[i].connection, table[p[i].connection])
         /\ \A i, j \in DOMAIN p : p[i].connection = p[j].connection => i = j
<1> DEFINE loads == {c \in DOMAIN table : Loads(table[c])}
           rank(c) == Cardinality({d \in loads : d <= c})
           nth(i) == CHOOSE c \in loads : rank(c) = i
           n == Cardinality(loads)
<1>1. /\ DOMAIN table = 1 .. Len(table) /\ Len(table) \in Nat
      /\ IsFiniteSet(DOMAIN table) /\ Cardinality(DOMAIN table) = Len(table)
  <2>1. DOMAIN table = 1 .. Len(table) /\ Len(table) \in Nat
    OBVIOUS
  <2>2. /\ IsFiniteSet(1 .. Len(table))
        /\ Cardinality(1 .. Len(table)) = IF 1 > Len(table) THEN 0 ELSE Len(table) - 1 + 1
    BY <2>1, FS_Interval, SMTT(60)
  <2>. QED BY <2>1, <2>2
<1>2. /\ loads \in SUBSET DOMAIN table /\ loads \in SUBSET Nat
      /\ IsFiniteSet(loads) /\ n <= Len(table)
  <2>1. loads \in SUBSET DOMAIN table /\ loads \in SUBSET Nat
    BY <1>1
  <2>. QED BY <1>1, <2>1, FS_Subset
<1>3. /\ n \in Nat
      /\ \A i \in 1 .. n : nth(i) \in loads /\ rank(nth(i)) = i
  <2>. HIDE DEF loads
  <2>1. n \in Nat /\ \A i \in 1 .. n : \E c \in loads : rank(c) = i
    BY <1>2, Ranks
  <2>. QED BY <2>1
<1>4. p = [i \in 1 .. n |-> Credential(nth(i), table[nth(i)])]
  BY DEF LoadCredentials
<1>5. \A i \in 1 .. n : /\ nth(i) \in DOMAIN table
                         /\ Credential(nth(i), table[nth(i)]) \in Credentials
                         /\ Credential(nth(i), table[nth(i)]).connection = nth(i)
  <2>. HIDE DEF loads, nth
  <2>1. \A c \in DOMAIN table : table[c] \in RowsOfTable /\ c \in Nat
    BY <1>1
  <2>2. \A c \in DOMAIN table : /\ Credential(c, table[c]) \in Credentials
                                /\ Credential(c, table[c]).connection = c
    BY <2>1 DEF Credential, Credentials, RowsOfTable
  <2>. QED BY <1>2, <1>3, <2>2
<1>6. DOMAIN p = 1 .. n /\ Len(p) = n
  BY <1>3, <1>4
<1>7. \A i \in DOMAIN p : p[i].connection = nth(i) /\ p[i] = Credential(nth(i), table[nth(i)])
  <2>. HIDE DEF nth, n
  <2>. QED BY <1>4, <1>5, <1>6
<1>8. p \in Seq(Credentials)
  <2>. HIDE DEF nth, n
  <2>. QED BY <1>3, <1>4, <1>5
<1>9. \A i, j \in 1 .. n : nth(i) = nth(j) => i = j
  <2>. HIDE DEF nth, rank, n
  <2>. QED BY <1>3
<1>. HIDE DEF nth, n, loads
<1>. QED BY <1>2, <1>5, <1>6, <1>7, <1>8, <1>9

-----------------------------------------------------------------------------
(* Types *)

\* What is held before a credential is.
LEMMA NoCredentialType == NoCredential \in Credentials /\ NoCredential.connection = None
BY DEF NoCredential, Credentials, None

\* The tables the assumption speaks of.
LEMMA RowsAssumption == InitialRows \subseteq Seq(RowsOfTable)
BY CredentialPoolAssumption

\* The types hold at first.
LEMMA TypeInit == Init => TypeOK
<1>. SUFFICES ASSUME Init PROVE TypeOK
  OBVIOUS
<1>1. rows \in Seq(RowsOfTable) /\ pool \in Seq(Credentials) /\ Len(pool) <= Len(rows)
  BY RowsAssumption, Loaded DEF Init
<1>2. ExecutorOK
  <2>1. cursor = 0 /\ (pool # <<>> => cursor < Size)
    BY <1>1 DEF Init, Size
  <2>2. executor \in {"grok", "openai", "gemini", "exa"} /\ key \in BOOLEAN /\ restarted \in BOOLEAN
    BY CredentialPoolAssumption DEF Init
  <2>3. holder \in [Connections -> Requests \union {NoRequest}]
    BY DEF Init, Connections
  <2>4. cursor \in Nat
    BY <2>1
  <2>. QED BY <1>1, <2>1, <2>2, <2>3, <2>4 DEF ExecutorOK
<1>3. TaskOK
  BY NoCredentialType DEF Init, TaskOK, States, Outcomes, None
<1>4. ProviderOK
  <2>1. \A c \in DOMAIN rows : rows[c] \in RowsOfTable
    BY <1>1
  <2>. QED BY <2>1 DEF Init, ProviderOK, Connections, RowsOfTable
<1>. QED BY <1>2, <1>3, <1>4 DEF TypeOK

\* However a try ends, its request is of the right type.
LEMMA EndTypes ==
  ASSUME TaskOK, NEW r \in Requests
  PROVE  /\ \A how \in Outcomes : Ends(r, how) =>
              /\ pc' \in [Requests -> States] /\ outcome' \in [Requests -> Outcomes]
              /\ index' \in [Requests -> Nat] /\ held' \in [Requests -> Credentials]
         /\ Failed(r) =>
              /\ pc' \in [Requests -> States] /\ outcome' \in [Requests -> Outcomes]
              /\ index' \in [Requests -> Nat] /\ held' \in [Requests -> Credentials]
<1>1. Forgets(r) => index' \in [Requests -> Nat] /\ held' \in [Requests -> Credentials]
  BY NoCredentialType DEF Forgets, TaskOK, None
<1>2. \A how \in Outcomes : Ends(r, how) => pc' \in [Requests -> States] /\ outcome' \in [Requests -> Outcomes]
  BY DEF Ends, TaskOK, States
<1>3. "failed" \in Outcomes
  BY DEF Outcomes
<1>4. pc' = [pc EXCEPT ![r] = "try"] => pc' \in [Requests -> States]
  BY DEF TaskOK, States
<1>. QED BY <1>1, <1>2, <1>3, <1>4 DEF Ends, Failed, TaskOK

\* Letting a lock go leaves the locks typed.
LEMMA UnlockedType ==
  ASSUME ExecutorOK, NEW r \in Requests
  PROVE  Unlocked(r) \in [Connections -> Requests \union {NoRequest}]
BY DEF Unlocked, ExecutorOK

\* Who renews a credential has a place of the pool, and a connection.
LEMMA InHand ==
  ASSUME TypeOK, PoolInv, HeldInv, NEW r \in Requests,
         pc[r] \in {"lock", "refresh", "reply", "recall"}
  PROVE  /\ index[r] \in DOMAIN pool /\ held[r].connection = pool[index[r]].connection
         /\ held[r].connection \in Connections
         /\ Answered(r) \in Credentials /\ Answered(r).connection = held[r].connection
<1>1. index[r] \in DOMAIN pool /\ held[r].connection = pool[index[r]].connection
  BY DEF HeldInv
<1>2. held[r].connection \in Connections
  BY <1>1 DEF PoolInv
<1>3. live[held[r].connection] \in [access : Nat, refresh : Nat] /\ held[r].connection \in Nat
  BY <1>2 DEF TypeOK, ExecutorOK, ProviderOK, TaskOK, Credentials
<1>. QED BY <1>1, <1>2, <1>3 DEF Answered, Credentials

\* No step changes which connections there are.
LEMMA ConnectionsStay ==
  ASSUME TypeOK, [Next]_vars
  PROVE  rows' \in Seq(RowsOfTable) /\ Len(rows') = Len(rows) /\ Connections' = Connections
<1>0. rows \in Seq(RowsOfTable)
  BY DEF TypeOK, ExecutorOK
<1>1. CASE rows' = rows
  BY <1>0, <1>1 DEF Connections
<1>2. ASSUME NEW r \in Requests, Renewed(r) PROVE rows' \in Seq(RowsOfTable) /\ Len(rows') = Len(rows)
  <2>. DEFINE c == held[r].connection
  <2>1. PICK expiry \in {"live", rows[c].expiry} : rows' = Persisted(Answered(r), expiry)
    BY <1>2 DEF Renewed
  <2>2. ASSUME c \in DOMAIN rows, key
        PROVE rows' \in Seq(RowsOfTable) /\ Len(rows') = Len(rows)
    <3>1. /\ Answered(r).connection = c /\ rows[c] \in RowsOfTable
          /\ Answered(r).access \in Nat /\ Answered(r).refresh \in Nat
      BY <1>0, <2>2 DEF Answered, TypeOK, ProviderOK, Connections
    <3> DEFINE n == [rows[c] EXCEPT !.access = Answered(r).access, !.refresh = Answered(r).refresh,
                                    !.sealed = "sealed", !.expiry = expiry]
    <3>2. n \in RowsOfTable
      BY <2>1, <3>1 DEF RowsOfTable
    <3>3. rows' = [rows EXCEPT ![c] = n]
      BY <2>1, <2>2, <3>1 DEF Persisted
    <3>. HIDE DEF n, c
    <3>. QED BY <1>0, <2>2, <3>2, <3>3
  <2>3. CASE c \notin DOMAIN rows
    <3>1. rows' = rows
      <4>1. Answered(r).connection = c
        BY DEF Answered
      <4>. QED BY <1>0, <2>1, <2>3, <4>1 DEF Persisted
    <3>. QED BY <1>0, <3>1
  <2>4. CASE ~key
    BY <1>0, <2>1, <2>4 DEF Persisted
  <2>. QED BY <2>2, <2>3, <2>4
<1>3. ASSUME NEW c \in Connections, Expire(c) PROVE rows' \in Seq(RowsOfTable) /\ Len(rows') = Len(rows)
  <2> DEFINE e == IF rows[c].expiry = "live" THEN "past" ELSE rows[c].expiry
             n == [rows[c] EXCEPT !.expiry = e]
  <2>1. rows' = [rows EXCEPT ![c] = n]
    BY <1>3 DEF Expire
  <2>2. rows[c] \in RowsOfTable /\ c \in DOMAIN rows
    BY <1>0, <1>3 DEF Connections
  <2>3. n \in RowsOfTable
    <3>1. e \in {"none", "live", "past", "odd"}
      BY <2>2 DEF RowsOfTable
    <3>. HIDE DEF e
    <3>. QED BY <2>2, <3>1 DEF RowsOfTable
  <2>. HIDE DEF n
  <2>. QED BY <1>0, <2>1, <2>2, <2>3
<1>4. \/ rows' = rows
      \/ \E r \in Requests : Renewed(r)
      \/ \E c \in Connections : Expire(c)
  BY ZenonT(60) DEF Next, vars, Reject, Start, Step, Upstream, HangUp, Restart, Pick, TakeRenewed,
         NothingToRenewWith, SendRefresh, RenewalLost, CallOk, CallFails, CallStale, Renews,
         RefreshFails
<1>. QED BY <1>0, <1>1, <1>2, <1>3, <1>4 DEF Connections

\* The next place of a ring.
LEMMA Turn ==
  ASSUME NEW n \in Nat \ {0}, NEW c \in 0 .. n - 1
  PROVE  (c + 1) % n = IF c + 1 = n THEN 0 ELSE c + 1
<1>1. CASE c + 1 < n
  BY <1>1
<1>2. CASE c + 1 = n
  BY <1>2
<1>. QED BY <1>1, <1>2

\* The cursor goes from place to place and around.
LEMMA CursorTurns ==
  ASSUME ExecutorOK
  PROVE  /\ Size \in Nat /\ (Size = 0 <=> pool = <<>>) /\ DOMAIN pool = 1 .. Size
         /\ pool # <<>> => /\ cursor \in 0 .. Size - 1
                          /\ NextCursor = IF cursor + 1 = Size THEN 0 ELSE cursor + 1
         /\ pool = <<>> => NextCursor = cursor
<1>1. Size \in Nat /\ (Size = 0 <=> pool = <<>>) /\ DOMAIN pool = 1 .. Size
  BY DEF ExecutorOK, Size
<1>2. pool # <<>> => cursor \in 0 .. Size - 1
  BY <1>1 DEF ExecutorOK
<1>. QED BY <1>1, <1>2, Turn DEF NextCursor

\* A step keeps the types of what the executor shares.
LEMMA ExecutorTypes == TypeOK /\ PoolInv /\ HeldInv /\ [Next]_vars => ExecutorOK'
<1>. SUFFICES ASSUME TypeOK, PoolInv, HeldInv, [Next]_vars PROVE ExecutorOK'
  OBVIOUS
<1>0. /\ rows' \in Seq(RowsOfTable) /\ Len(rows') = Len(rows) /\ Connections' = Connections
      /\ ExecutorOK /\ TaskOK /\ Len(rows) \in Nat
  BY ConnectionsStay, SMTT(60) DEF TypeOK, ExecutorOK
<1>1. executor' = executor /\ key' = key
  BY ZenonT(60) DEF Next, vars, Reject, Start, Step, Upstream, HangUp, Restart, Pick, TakeRenewed,
         NothingToRenewWith, SendRefresh, Renewed, RenewalLost, CallOk, CallFails, CallStale,
         Renews, RefreshFails, Expire
<1>2. CASE UNCHANGED <<pool, cursor, restarted>> /\ holder' \in [Connections -> Requests \union {NoRequest}]
  BY <1>0, <1>1, <1>2 DEF ExecutorOK, Size
<1>3. ASSUME NEW r \in Requests, Pick(r) PROVE ExecutorOK'
  <2>1. pool' = pool /\ cursor' \in Nat /\ (pool # <<>> => cursor' < Size)
    BY <1>0, <1>3, CursorTurns DEF Pick, ExecutorOK
  <2>. QED BY <1>0, <1>1, <1>3, <2>1 DEF Pick, ExecutorOK, Size
<1>4. ASSUME NEW r \in Requests, SendRefresh(r)
      PROVE holder' \in [Connections -> Requests \union {NoRequest}]
  BY <1>0, <1>4 DEF SendRefresh, ExecutorOK
<1>5. ASSUME NEW r \in Requests, Renewed(r) PROVE ExecutorOK'
  <2>1. index[r] \in DOMAIN pool /\ Answered(r) \in Credentials
    BY <1>5, InHand DEF Renewed
  <2>2. pool' = [pool EXCEPT ![index[r]] = Answered(r)]
    BY <1>5 DEF Renewed
  <2>3. pool' \in Seq(Credentials) /\ Len(pool') = Len(pool)
    BY <1>0, <2>1, <2>2 DEF ExecutorOK
  <2>4. cursor' = cursor /\ (pool' # <<>> => cursor' < Len(pool'))
    BY <1>0, <1>5, <2>3 DEF Renewed, ExecutorOK, Size
  <2>. QED BY <1>0, <1>1, <1>5, <2>3, <2>4, UnlockedType DEF Renewed, ExecutorOK, Size
<1>6. CASE Restart
  <2>1. pool' \in Seq(Credentials) /\ Len(pool') <= Len(rows)
    BY <1>0, <1>6, Loaded DEF Restart, ExecutorOK
  <2>2. cursor' = 0 /\ (pool' # <<>> => Len(pool') > 0)
    BY <1>6, <2>1 DEF Restart
  <2>. QED BY <1>0, <1>1, <1>6, <2>1, <2>2 DEF Restart, ExecutorOK, Size
<1>7. ASSUME NEW r \in Requests, Renews(r) \/ RefreshFails(r) \/ RenewalLost(r) \/ HangUp(r)
      PROVE ExecutorOK'
  BY <1>0, <1>2, <1>7, UnlockedType DEF Renews, RefreshFails, RenewalLost, HangUp, ReleasedBy, ExecutorOK
<1>8. ASSUME NEW r \in Requests, \/ Reject(r) \/ Start(r) \/ TakeRenewed(r)
                                 \/ NothingToRenewWith(r) \/ CallOk(r) \/ CallFails(r)
                                 \/ CallStale(r)
      PROVE ExecutorOK'
  BY <1>0, <1>2, <1>8 DEF Reject, Start, TakeRenewed, NothingToRenewWith, CallOk, CallFails,
     CallStale, ExecutorOK
<1>9. CASE UNCHANGED vars \/ \E c \in Connections : Expire(c)
  BY <1>0, <1>2, <1>9 DEF Expire, vars, ExecutorOK
<1>. QED BY <1>2, <1>3, <1>4, <1>5, <1>6, <1>7, <1>8, <1>9 DEF Next, Step, Upstream, SendRefresh

\* A step keeps the types of what a request has of its own.
LEMMA TaskTypes == TypeOK /\ PoolInv /\ HeldInv /\ [Next]_vars => TaskOK'
<1>. SUFFICES ASSUME TypeOK, PoolInv, HeldInv, [Next]_vars PROVE TaskOK'
  OBVIOUS
<1>0. ExecutorOK /\ TaskOK /\ ProviderOK
  BY DEF TypeOK
<1>1. ASSUME NEW r \in Requests, Reject(r) \/ CallOk(r) \/ HangUp(r) PROVE TaskOK'
  <2>1. "invalid" \in Outcomes /\ "ok" \in Outcomes /\ "left" \in Outcomes
    BY DEF Outcomes
  <2>. QED BY <1>0, <1>1, <2>1, EndTypes DEF Reject, CallOk, HangUp, TaskOK
<1>2. ASSUME NEW r \in Requests, CallFails(r) \/ NothingToRenewWith(r) \/ RefreshFails(r) \/ RenewalLost(r)
      PROVE TaskOK'
  BY <1>0, <1>2, EndTypes DEF CallFails, NothingToRenewWith, RefreshFails, RenewalLost, TaskOK
<1>3. ASSUME NEW r \in Requests, Start(r) \/ CallStale(r) \/ SendRefresh(r) \/ Renews(r) PROVE TaskOK'
  BY <1>0, <1>3 DEF Start, CallStale, SendRefresh, Renews, TaskOK, States
<1>4. ASSUME NEW r \in Requests, Pick(r) PROVE TaskOK'
  <2> DEFINE i == IF Size = 0 THEN None ELSE cursor + 1
  <2>1. /\ index' = [index EXCEPT ![r] = i]
        /\ held' = [held EXCEPT ![r] = IF i = None THEN NoCredential ELSE pool[i]]
        /\ tried' = [tried EXCEPT ![r] = @ \union {i}]
    BY <1>4 DEF Pick
  <2>2. i \in Nat /\ (i = None \/ i \in DOMAIN pool)
    BY <1>0, CursorTurns DEF None
  <2>3. (IF i = None THEN NoCredential ELSE pool[i]) \in Credentials
    <3>. HIDE DEF i
    <3>. QED BY <1>0, <2>2, NoCredentialType DEF ExecutorOK
  <2>4. index' \in [Requests -> Nat] /\ held' \in [Requests -> Credentials]
        /\ tried' \in [Requests -> SUBSET Nat]
    <3>. HIDE DEF i
    <3>. QED BY <1>0, <2>1, <2>2, <2>3 DEF TaskOK
  <2>5. crossed' \in [Requests -> BOOLEAN]
    BY <1>0, <1>4 DEF Pick, TaskOK
  <2>6. tries' \in [Requests -> Nat] /\ pc' \in [Requests -> States]
    BY <1>0, <1>4 DEF Pick, TaskOK, States
  <2>. QED BY <1>0, <1>4, <2>4, <2>5, <2>6 DEF Pick, TaskOK
<1>5. ASSUME NEW r \in Requests, TakeRenewed(r) \/ Renewed(r) PROVE TaskOK'
  <2>1. Current(r) \in Credentials /\ Answered(r) \in Credentials
    BY <1>0, <1>5, InHand DEF TakeRenewed, Renewed, Current, ExecutorOK
  <2>. QED BY <1>0, <1>5, <2>1 DEF TakeRenewed, Renewed, TaskOK, States
<1>6. CASE Restart
  <2>1. pc' \in [Requests -> States] /\ outcome' \in [Requests -> Outcomes]
    BY <1>0, <1>6 DEF Restart, TaskOK, States, Outcomes
  <2>. QED BY <1>0, <1>6, <2>1, NoCredentialType DEF Restart, TaskOK, None
<1>7. CASE UNCHANGED task
  BY <1>0, <1>7 DEF task, TaskOK
<1>. QED BY <1>1, <1>2, <1>3, <1>4, <1>5, <1>6, <1>7 DEF Next, Step, Upstream, Expire, vars

\* A step keeps the types of what the provider knows.
LEMMA ProviderTypes == TypeOK /\ PoolInv /\ HeldInv /\ [Next]_vars => ProviderOK'
<1>. SUFFICES ASSUME TypeOK, PoolInv, HeldInv, [Next]_vars PROVE ProviderOK'
  OBVIOUS
<1>0. ProviderOK /\ Connections' = Connections
  BY ConnectionsStay DEF TypeOK
<1>1. ASSUME NEW r \in Requests, Renews(r) PROVE ProviderOK'
  <2>1. held[r].connection \in Connections
    BY <1>1, InHand DEF Renews
  <2>2. PICK next \in {live[held[r].connection].refresh, live[held[r].connection].access + 1} :
          live' = [live EXCEPT ![held[r].connection] =
                     [access |-> live[held[r].connection].access + 1, refresh |-> next]]
    BY <1>1 DEF Renews
  <2>3. live[held[r].connection].access + 1 \in Nat /\ next \in Nat
    BY <1>0, <2>1, <2>2 DEF ProviderOK
  <2>4. live' \in [Connections -> [access : Nat, refresh : Nat]]
    BY <1>0, <2>2, <2>3 DEF ProviderOK
  <2>. QED BY <1>0, <1>1, <2>4 DEF Renews, ProviderOK
<1>2. ASSUME NEW r \in Requests, RenewalLost(r) \/ HangUp(r) PROVE ProviderOK'
  <2>1. pc[r] = "reply" => held[r].connection \in Connections
    BY InHand
  <2>2. lost' \subseteq Connections
    BY <1>0, <1>2, <2>1 DEF RenewalLost, HangUp, ProviderOK
  <2>. QED BY <1>0, <1>2, <2>2 DEF RenewalLost, HangUp, ProviderOK, provider
<1>3. CASE Restart
  <2>1. \A q \in Requests : pc[q] = "reply" => held[q].connection \in Connections
    BY InHand
  <2>2. lost' \subseteq Connections
    BY <1>0, <1>3, <2>1 DEF Restart, ProviderOK
  <2>. QED BY <1>0, <1>3, <2>2 DEF Restart, ProviderOK, provider
<1>4. ASSUME NEW c \in Connections, Expire(c) PROVE ProviderOK'
  BY <1>0, <1>4 DEF Expire, ProviderOK
<1>5. CASE UNCHANGED <<provider, lost>>
  BY <1>0, <1>5 DEF provider, ProviderOK
<1>. QED BY <1>1, <1>2, <1>3, <1>4, <1>5 DEF Next, vars, Step, Upstream, Reject, Start, Pick,
         TakeRenewed, NothingToRenewWith, SendRefresh, Renewed, CallOk, CallFails, CallStale,
         RefreshFails

\* A step keeps all types.
LEMMA TypeStep == TypeOK /\ PoolInv /\ HeldInv /\ [Next]_vars => TypeOK'
BY ExecutorTypes, TaskTypes, ProviderTypes DEF TypeOK

-----------------------------------------------------------------------------
(* Pool and locks *)

OfRequest(r) == Reject(r) \/ Start(r) \/ Step(r) \/ Upstream(r) \/ HangUp(r)

\* What a step can be.
LEMMA Steps ==
  [Next]_vars => \/ \E r \in Requests : OfRequest(r)
                 \/ \E c \in Connections : Expire(c)
                 \/ Restart
                 \/ UNCHANGED vars
BY DEF Next, OfRequest

\* What a request does leaves the others where they are, with the locks they hold.
LEMMA Others ==
  ASSUME TypeOK, NEW r \in Requests, OfRequest(r), NEW q \in Requests, q # r
  PROVE  /\ pc'[q] = pc[q] /\ index'[q] = index[q] /\ held'[q] = held[q]
         /\ tries'[q] = tries[q] /\ tried'[q] = tried[q]
         /\ outcome'[q] = outcome[q] /\ mode'[q] = mode[q]
         /\ \A c \in Connections : holder'[c] = q <=> holder[c] = q
<1>0. NoRequest # q
  BY CredentialPoolAssumption
<1>1. \A c \in Connections : Unlocked(r)[c] = q <=> holder[c] = q
  BY <1>0 DEF Unlocked
<1>2. SendRefresh(r) => \A c \in Connections : holder'[c] = q <=> holder[c] = q
  BY <1>0 DEF SendRefresh, HasLock, TypeOK, ExecutorOK
<1>3. \A c \in Connections : holder'[c] = q <=> holder[c] = q
  BY <1>1, <1>2 DEF OfRequest, Reject, Start, Step, Upstream, HangUp, ReleasedBy, Pick, TakeRenewed,
         NothingToRenewWith, Renewed, RenewalLost, CallOk, CallFails, CallStale, Renews, RefreshFails
<1>4. \A how : Ends(r, how) => /\ pc'[q] = pc[q] /\ index'[q] = index[q] /\ held'[q] = held[q]
                               /\ outcome'[q] = outcome[q]
  BY DEF Ends, Forgets, TypeOK, TaskOK
<1>5. Failed(r) => /\ pc'[q] = pc[q] /\ index'[q] = index[q] /\ held'[q] = held[q]
                   /\ outcome'[q] = outcome[q]
  BY <1>4 DEF Failed, Forgets, TypeOK, TaskOK
<1>6. /\ pc'[q] = pc[q] /\ index'[q] = index[q] /\ held'[q] = held[q]
      /\ outcome'[q] = outcome[q]
  BY <1>4, <1>5 DEF OfRequest, Reject, Start, Step, Upstream, HangUp, Pick, TakeRenewed, SendRefresh,
         NothingToRenewWith, Renewed, RenewalLost, CallOk, CallFails, CallStale, Renews, RefreshFails,
         TypeOK, TaskOK
<1>7. tries'[q] = tries[q] /\ tried'[q] = tried[q] /\ mode'[q] = mode[q]
  BY DEF OfRequest, Reject, Start, Step, Upstream, HangUp, Pick, TakeRenewed, SendRefresh,
         NothingToRenewWith, Renewed, RenewalLost, CallOk, CallFails, CallStale, Renews, RefreshFails,
         TypeOK, TaskOK
<1>. QED BY <1>3, <1>6, <1>7

\* Only a restart changes of which connections the pool has credentials.
LEMMA PoolStays ==
  ASSUME TypeOK, PoolInv, HeldInv, [Next]_vars, ~Restart
  PROVE  /\ DOMAIN pool' = DOMAIN pool /\ Size' = Size
         /\ \A i \in DOMAIN pool : pool'[i].connection = pool[i].connection
<1>1. CASE pool' = pool
  BY <1>1 DEF Size
<1>2. ASSUME NEW r \in Requests, Renewed(r)
      PROVE  /\ DOMAIN pool' = DOMAIN pool /\ Size' = Size
             /\ \A i \in DOMAIN pool : pool'[i].connection = pool[i].connection
  <2>1. /\ index[r] \in DOMAIN pool /\ held[r].connection = pool[index[r]].connection
        /\ Answered(r).connection = held[r].connection
    BY <1>2, InHand DEF Renewed
  <2>. QED BY <1>2, <2>1 DEF Renewed, TypeOK, ExecutorOK, Size
<1>3. pool' = pool \/ \E r \in Requests : Renewed(r)
  BY Steps, ZenonT(60) DEF OfRequest, vars, Reject, Start, Step, Upstream, HangUp, Expire, Pick, TakeRenewed,
         NothingToRenewWith, SendRefresh, RenewalLost, CallOk, CallFails, CallStale, Renews,
         RefreshFails
<1>. QED BY <1>1, <1>2, <1>3

\* A step leaves one credential of a connection in the pool.
LEMMA PoolStep == TypeOK /\ PoolInv /\ HeldInv /\ [Next]_vars => PoolInv'
<1>. SUFFICES ASSUME TypeOK, PoolInv, HeldInv, [Next]_vars PROVE PoolInv'
  OBVIOUS
<1>1. Connections' = Connections
  BY ConnectionsStay
<1>2. CASE Restart
  BY <1>1, <1>2, Loaded, SMTT(60) DEF Restart, PoolInv, Connections, TypeOK, ExecutorOK
<1>3. CASE ~Restart
  BY <1>1, <1>3, PoolStays DEF PoolInv
<1>. QED BY <1>2, <1>3

\* A request that lets its credential go holds no lock.
Gone(r) ==
    /\ index'[r] = None /\ held'[r] = NoCredential /\ pc'[r] \in {"try", "done"}
    /\ \A c \in Connections : holder'[c] # r

\* A request that gives its credential up holds no lock.
LEMMA LetGo ==
  ASSUME TypeOK, HeldInv, NEW r \in Requests,
         Reject(r) \/ CallOk(r) \/ CallFails(r) \/ NothingToRenewWith(r) \/ RefreshFails(r)
            \/ RenewalLost(r) \/ HangUp(r)
  PROVE  Gone(r)
<1>1. Failed(r) \/ \E how : Ends(r, how)
  BY DEF Reject, CallOk, CallFails, NothingToRenewWith, RefreshFails, RenewalLost, HangUp
<1>2. index'[r] = None /\ held'[r] = NoCredential /\ pc'[r] \in {"try", "done"}
  BY <1>1 DEF Failed, Ends, Forgets, TypeOK, TaskOK
<1>3. \A c \in Connections : Unlocked(r)[c] # r
  BY CredentialPoolAssumption DEF Unlocked
<1>4. pc[r] \notin {"refresh", "reply"} => \A c \in Connections : holder[c] # r
  BY DEF HeldInv, Renewing
<1>5. \A c \in Connections : holder'[c] # r
  BY <1>3, <1>4 DEF Reject, CallOk, CallFails, NothingToRenewWith, RefreshFails, RenewalLost, HangUp,
     ReleasedBy
<1>. QED BY <1>2, <1>5 DEF Gone

HeldBy(r) ==
    /\ \/ index[r] = None /\ held[r] = NoCredential
       \/ index[r] \in DOMAIN pool /\ held[r].connection = pool[index[r]].connection
    /\ pc[r] \in {"lock", "refresh", "reply", "recall"} => index[r] # None
    /\ Renewing(r) => holder[held[r].connection] = r
    /\ \A c \in Connections : holder[c] = r => Renewing(r) /\ held[r].connection = c

\* A step leaves a lock with the one request that renews under it.
LEMMA HeldStep == TypeOK /\ PoolInv /\ HeldInv /\ [Next]_vars => HeldInv'
<1>. SUFFICES ASSUME TypeOK, PoolInv, HeldInv, [Next]_vars PROVE HeldInv'
  OBVIOUS
<1>0. /\ Connections' = Connections /\ \A r \in Requests : HeldBy(r)
      /\ TaskOK /\ ExecutorOK /\ NoRequest \notin Requests
  BY ConnectionsStay, CredentialPoolAssumption DEF HeldInv, HeldBy, TypeOK
<1>1. SUFFICES ASSUME NEW q \in Requests PROVE HeldBy(q)'
  BY DEF HeldInv, HeldBy
<1>. USE DEF Renewing
<1>2. ASSUME Restart PROVE HeldBy(q)'
  BY <1>0, <1>2 DEF Restart, HeldBy, Running
<1>3. ASSUME UNCHANGED vars \/ \E c \in Connections : Expire(c) PROVE HeldBy(q)'
  BY <1>0, <1>3 DEF vars, Expire, task, HeldBy
<1>4. ASSUME NEW r \in Requests, OfRequest(r), ~Restart PROVE HeldBy(q)'
  <2>1. /\ DOMAIN pool' = DOMAIN pool
        /\ \A i \in DOMAIN pool : pool'[i].connection = pool[i].connection
    BY <1>4, PoolStays
  <2>2. CASE q # r
    <3>1. /\ pc'[q] = pc[q] /\ index'[q] = index[q] /\ held'[q] = held[q]
          /\ \A c \in Connections : holder'[c] = q <=> holder[c] = q
      BY <1>4, <2>2, Others
    <3>2. Renewing(q) => held[q].connection \in Connections
      BY InHand
    <3>. QED BY <1>0, <2>1, <3>1, <3>2 DEF HeldBy
  <2>. SUFFICES ASSUME q = r PROVE HeldBy(r)'
    BY <2>2
  <2>3. ASSUME Gone(r) PROVE HeldBy(r)'
    BY <1>0, <2>3 DEF Gone, HeldBy
  <2>4. CASE Start(r)
    BY <1>0, <2>1, <2>4 DEF Start, HeldBy, TaskOK
  <2>5. CASE Pick(r)
    <3> DEFINE i == IF Size = 0 THEN None ELSE cursor + 1
    <3>1. /\ index' = [index EXCEPT ![r] = i]
          /\ held' = [held EXCEPT ![r] = IF i = None THEN NoCredential ELSE pool[i]]
          /\ pc' = [pc EXCEPT ![r] = "call"] /\ holder' = holder /\ pool' = pool
      BY <2>5 DEF Pick
    <3>2. i = None \/ (i # None /\ i \in DOMAIN pool)
      BY <1>0, CursorTurns DEF None
    <3>3. \A c \in Connections : holder[c] # r
      BY <1>0, <2>5 DEF Pick, HeldBy
    <3>. HIDE DEF i
    <3>4. pc'[r] = "call" /\ index'[r] = i /\ held'[r] = IF i = None THEN NoCredential ELSE pool[i]
      BY <1>0, <3>1 DEF TaskOK
    <3>. QED BY <1>0, <3>1, <3>2, <3>3, <3>4 DEF HeldBy
  <2>6. CASE CallStale(r)
    <3>1. held[r].connection # None
      BY <2>6 DEF CallStale, Accepted
    <3>2. index[r] # None
      <4>1. None \notin DOMAIN pool
        BY <1>0 DEF ExecutorOK, None
      <4>. QED BY <1>0, <3>1, <4>1, NoCredentialType DEF HeldBy
    <3>. QED BY <1>0, <2>1, <2>6, <3>2 DEF CallStale, HeldBy, TaskOK
  <2>7. CASE TakeRenewed(r)
    <3>1. index[r] \in DOMAIN pool /\ index[r] # None
      BY <1>0, <2>7 DEF TakeRenewed, HeldBy
    <3>2. \A c \in Connections : holder[c] # r
      BY <1>0, <2>7 DEF TakeRenewed, HeldBy
    <3>. QED BY <1>0, <2>7, <3>1, <3>2 DEF TakeRenewed, Current, HeldBy, TaskOK
  <2>8. CASE SendRefresh(r)
    <3>1. held[r].connection \in Connections
      BY <2>8, InHand DEF SendRefresh
    <3>2. \A c \in Connections : holder[c] # r
      BY <1>0, <2>8 DEF SendRefresh, HeldBy
    <3>. QED BY <1>0, <2>8, <3>1, <3>2 DEF SendRefresh, HeldBy, TaskOK, ExecutorOK
  <2>9. CASE Renews(r)
    BY <1>0, <2>1, <2>9 DEF Renews, HeldBy, TaskOK
  <2>10. CASE Renewed(r)
    <3>1. /\ index[r] \in DOMAIN pool /\ index[r] # None
          /\ held[r].connection = pool[index[r]].connection
          /\ Answered(r).connection = held[r].connection
      BY <1>0, <2>10, InHand DEF Renewed, HeldBy
    <3>2. \A c \in Connections : holder'[c] # r
      BY <1>0, <2>10 DEF Renewed, Unlocked
    <3>3. pc'[r] = "recall" /\ index'[r] = index[r] /\ held'[r] = Answered(r)
      BY <1>0, <2>10 DEF Renewed, TaskOK
    <3>. QED BY <1>0, <2>1, <3>1, <3>2, <3>3 DEF HeldBy
  <2>. QED BY <1>4, <2>3, <2>4, <2>5, <2>6, <2>7, <2>8, <2>9, <2>10, LetGo
       DEF OfRequest, Step, Upstream
<1>. QED BY <1>2, <1>3, <1>4, Steps

-----------------------------------------------------------------------------
(* Renewals *)

\* Who is being renewed, said of the requests.
LEMMA RenewedNow == \A c : c \in BeingRenewed <=> \E q \in Requests : pc[q] = "reply" /\ held[q].connection = c
BY DEF BeingRenewed

\* A step that renews nothing forgets no renewal, unless it says so.
LEMMA TokensStay ==
  ASSUME TypeOK, PoolInv, HeldInv, TokenInv, NEW r \in Requests, OfRequest(r), Connections' = Connections,
         UNCHANGED <<key, rows, pool, live>>, lost \subseteq lost',
         pc[r] = "reply" => held[r].connection \in lost',
         pc'[r] = "refresh" /\ held'[r].connection \notin lost' =>
            held'[r].refresh = live[held'[r].connection].refresh
  PROVE  TokenInv'
<1>1. \A q \in Requests : q # r => pc'[q] = pc[q] /\ held'[q] = held[q]
  BY Others
<1>2. \A c : c \in lost \union BeingRenewed => c \in lost' \union BeingRenewed'
  <2>1. \A c : c \in BeingRenewed' <=> \E q \in Requests : pc'[q] = "reply" /\ held'[q].connection = c
    BY RenewedNow DEF BeingRenewed
  <2>. QED BY <1>1, <2>1, RenewedNow
<1>3. \A c \in Connections : (TokensOf(c) /\ AgeOf(c))'
  BY <1>2 DEF TokenInv, TokensOf, AgeOf
<1>4. \A q \in Requests : SentBy(q)'
  BY <1>1 DEF TokenInv, SentBy
<1>5. TokenInv' <=> /\ \A c \in Connections' : (TokensOf(c) /\ AgeOf(c))'
                    /\ \A q \in Requests : SentBy(q)'
  BY DEF TokenInv, TokensOf, AgeOf, SentBy
<1>. QED BY <1>3, <1>4, <1>5

\* The provider renews a token: the old one is dead, the new one on its way.
LEMMA RenewsStep ==
  ASSUME TypeOK, PoolInv, HeldInv, TokenInv, NEW r \in Requests, Renews(r), Connections' = Connections
  PROVE  TokenInv'
<1> DEFINE c == held[r].connection
<1>1. /\ c \in Connections /\ holder[c] = r
      /\ \A q \in Requests : Renewing(q) => holder[held[q].connection] = q
  BY InHand DEF Renews, HeldInv, Renewing
<1>2. /\ pc' = [pc EXCEPT ![r] = "reply"] /\ UNCHANGED <<key, rows, pool, lost, held>>
      /\ live'[c].access = live[c].access + 1
      /\ \A d \in Connections : d # c => live'[d] = live[d]
      /\ live[c].access \in Nat
  <2>1. PICK next : live' = [live EXCEPT ![c] = [access |-> live[c].access + 1, refresh |-> next]]
    BY DEF Renews
  <2>2. live'[c] = [access |-> live[c].access + 1, refresh |-> next] /\ live[c].access \in Nat
    BY <1>1, <2>1 DEF TypeOK, ProviderOK
  <2>3. \A d \in Connections : d # c => live'[d] = live[d]
    BY <2>1 DEF TypeOK, ProviderOK
  <2>. QED BY <2>2, <2>3 DEF Renews
<1>3. pc'[r] = "reply" /\ \A q \in Requests : q # r => pc'[q] = pc[q]
  BY <1>2 DEF TypeOK, TaskOK
<1>. HIDE DEF c
<1>4. \A d \in Connections : d \in BeingRenewed \/ d = c => d \in BeingRenewed'
  <2>1. \A d : d \in BeingRenewed' <=> \E q \in Requests : pc'[q] = "reply" /\ held'[q].connection = d
    BY DEF BeingRenewed
  <2>. QED BY <1>2, <1>3, <2>1, RenewedNow DEF c
<1>5. ASSUME NEW d \in Connections PROVE TokensOf(d)' /\ AgeOf(d)'
  <2>0. TokensOf(d) /\ AgeOf(d) /\ rows[d].access \in Nat
    <3>1. rows[d] \in RowsOfTable
      BY DEF TypeOK, ExecutorOK, Connections
    <3>. QED BY <3>1 DEF TokenInv, RowsOfTable
  <2>1. CASE d = c
    BY <1>2, <1>4, <2>0, <2>1 DEF TokensOf, AgeOf
  <2>2. CASE d # c
    BY <1>2, <1>4, <2>0, <2>2 DEF TokensOf, AgeOf
  <2>. QED BY <2>1, <2>2
<1>6. ASSUME NEW q \in Requests PROVE SentBy(q)'
  <2>1. CASE q = r
    BY <1>3, <2>1 DEF SentBy
  <2>2. CASE q # r /\ pc[q] = "refresh"
    <3>1. held[q].connection # c /\ held[q].connection \in Connections
      BY <1>1, <2>2, InHand DEF Renewing
    <3>2. live'[held[q].connection] = live[held[q].connection] /\ SentBy(q)
      BY <1>2, <3>1 DEF TokenInv
    <3>. QED BY <1>2, <1>3, <2>2, <3>2 DEF SentBy
  <2>3. CASE q # r /\ pc[q] # "refresh"
    BY <1>3, <2>3 DEF SentBy
  <2>. QED BY <2>1, <2>2, <2>3
<1>. QED BY <1>5, <1>6 DEF TokenInv, TokensOf, AgeOf, SentBy

\* The renewal arrives: what is kept is what the provider has.
LEMMA RenewedStep ==
  ASSUME TypeOK, PoolInv, HeldInv, TokenInv, NEW r \in Requests, Renewed(r), Connections' = Connections
  PROVE  TokenInv'
<1> DEFINE c == held[r].connection
           a == Answered(r)
<1>1. /\ c \in Connections /\ index[r] \in DOMAIN pool /\ c = pool[index[r]].connection
      /\ a.connection = c /\ a.refresh = live[c].refresh
  BY InHand DEF Renewed, Answered
<1>2. /\ UNCHANGED <<key, live, lost>> /\ pool' = [pool EXCEPT ![index[r]] = a]
      /\ pc' = [pc EXCEPT ![r] = "recall"] /\ held' = [held EXCEPT ![r] = a]
  BY DEF Renewed, provider
<1>3. /\ DOMAIN pool' = DOMAIN pool /\ pool'[index[r]] = a
      /\ \A i \in DOMAIN pool : i # index[r] => pool'[i] = pool[i] /\ pool[i].connection # c
  <2>. HIDE DEF a
  <2>1. \A i, j \in DOMAIN pool : pool[i].connection = pool[j].connection => i = j
    BY DEF PoolInv
  <2>. QED BY <1>1, <1>2, <2>1 DEF TypeOK, ExecutorOK
<1>4. /\ ~key => rows' = rows
      /\ key => rows'[c].refresh = live[c].refresh
      /\ \A d \in Connections : d # c => rows'[d] = rows[d]
  <2>1. PICK expiry : rows' = Persisted(a, expiry)
    BY DEF Renewed
  <2>2. CASE key
    <3> DEFINE n == [rows[c] EXCEPT !.access = a.access, !.refresh = a.refresh,
                                    !.sealed = "sealed", !.expiry = expiry]
    <3>1. rows' = [rows EXCEPT ![c] = n]
      BY <1>1, <2>1, <2>2 DEF Persisted
    <3>2. rows[c] \in RowsOfTable
      BY <1>1 DEF TypeOK, ExecutorOK, Connections
    <3>3. n.refresh = a.refresh
      BY <3>2 DEF RowsOfTable
    <3>. HIDE DEF n, a, c
    <3>. QED BY <1>1, <2>2, <3>1, <3>3 DEF TypeOK, ExecutorOK, Connections
  <2>3. CASE ~key
    BY <2>1, <2>3 DEF Persisted
  <2>. QED BY <2>2, <2>3
<1>5. \A q \in Requests : /\ q # r => pc'[q] = pc[q] /\ held'[q] = held[q]
                          /\ q = r => pc'[q] = "recall"
  BY <1>2 DEF TypeOK, TaskOK
<1>. HIDE DEF a, c
<1>6. \A d \in Connections : d \in BeingRenewed /\ d # c => d \in BeingRenewed'
  <2>1. \A d : d \in BeingRenewed' <=> \E q \in Requests : pc'[q] = "reply" /\ held'[q].connection = d
    BY DEF BeingRenewed
  <2>. QED BY <1>5, <2>1, RenewedNow DEF c
<1>7. ASSUME NEW d \in Connections PROVE TokensOf(d)' /\ AgeOf(d)'
  <2>0. TokensOf(d) /\ AgeOf(d)
    BY DEF TokenInv
  <2>1. AgeOf(d)'
    BY <1>2, <1>4, <2>0 DEF AgeOf
  <2>2. CASE d = c
    <3>1. \A i \in DOMAIN pool : pool'[i].connection = d => pool'[i].refresh = live[d].refresh
      BY <1>1, <1>3, <2>2
    <3>2. key => rows'[d].refresh = live[d].refresh
      BY <1>4, <2>2
    <3>. QED BY <1>2, <1>3, <2>1, <3>1, <3>2 DEF TokensOf
  <2>3. CASE d # c
    <3>1. \A i \in DOMAIN pool : pool'[i].connection = d => pool[i].connection = d /\ pool'[i] = pool[i]
      BY <1>1, <1>3, <2>3
    <3>. QED BY <1>2, <1>3, <1>4, <1>6, <2>0, <2>1, <2>3, <3>1 DEF TokensOf
  <2>. QED BY <2>1, <2>2, <2>3
<1>8. \A q \in Requests : SentBy(q)'
  BY <1>2, <1>5 DEF TokenInv, SentBy
<1>. QED BY <1>7, <1>8 DEF TokenInv, TokensOf, AgeOf, SentBy

\* Nothing is renewed or held at first.
LEMMA TokenInit == Init => PoolInv /\ HeldInv /\ TokenInv
<1>. SUFFICES ASSUME Init PROVE PoolInv /\ HeldInv /\ TokenInv
  OBVIOUS
<1>1. /\ rows \in Seq(RowsOfTable) /\ pool = LoadCredentials(rows) /\ NoRequest \notin Requests
  BY RowsAssumption, CredentialPoolAssumption DEF Init
<1>2. /\ \A i \in DOMAIN pool : /\ pool[i].connection \in DOMAIN rows
                                /\ pool[i] = Credential(pool[i].connection, rows[pool[i].connection])
      /\ \A i, j \in DOMAIN pool : pool[i].connection = pool[j].connection => i = j
  BY <1>1, Loaded
<1>3. PoolInv
  BY <1>2 DEF PoolInv, Connections
<1>4. HeldInv
  BY <1>1 DEF Init, HeldInv, Renewing, Connections
<1>5. \A c \in Connections : /\ live[c].refresh = rows[c].refresh /\ live[c].access = rows[c].access
                             /\ rows[c].access \in Nat
  <2>1. \A c \in DOMAIN rows : rows[c] \in RowsOfTable
    BY <1>1
  <2>. QED BY <2>1 DEF Init, Connections, RowsOfTable
<1>6. \A i \in DOMAIN pool : pool[i].refresh = rows[pool[i].connection].refresh
  BY <1>2 DEF Credential
<1>7. \A r \in Requests : pc[r] = "idle"
  BY DEF Init
<1>8. TokenInv
  BY <1>5, <1>6, <1>7 DEF TokenInv, TokensOf, AgeOf, SentBy
<1>. QED BY <1>3, <1>4, <1>8

\* A step keeps the tokens as the provider has them, unless one is lost on the way.
LEMMA TokenStep == TypeOK /\ PoolInv /\ HeldInv /\ TokenInv /\ [Next]_vars => TokenInv'
<1>. SUFFICES ASSUME TypeOK, PoolInv, HeldInv, TokenInv, [Next]_vars PROVE TokenInv'
  OBVIOUS
<1>0. Connections' = Connections /\ TaskOK /\ ExecutorOK
  BY ConnectionsStay DEF TypeOK
<1>1. ASSUME NEW r \in Requests, OfRequest(r) PROVE TokenInv'
  <2>1. CASE Renews(r)
    BY <1>0, <2>1, RenewsStep
  <2>2. CASE Renewed(r)
    BY <1>0, <2>2, RenewedStep
  <2>3. CASE \/ Reject(r) \/ CallOk(r) \/ CallFails(r) \/ NothingToRenewWith(r) \/ RefreshFails(r)
             \/ RenewalLost(r) \/ HangUp(r)
    <3>1. pc'[r] # "refresh"
      BY <2>3, LetGo DEF Gone
    <3>2. lost \subseteq lost' /\ (pc[r] = "reply" => held[r].connection \in lost')
      BY <2>3 DEF Reject, CallOk, CallFails, NothingToRenewWith, RefreshFails, RenewalLost, HangUp
    <3>3. UNCHANGED <<key, rows, pool, live>>
      BY <2>3 DEF Reject, CallOk, CallFails, NothingToRenewWith, RefreshFails, RenewalLost, HangUp,
         provider
    <3>. QED BY <1>0, <1>1, <3>1, <3>2, <3>3, TokensStay
  <2>4. CASE Start(r) \/ Pick(r) \/ CallStale(r) \/ TakeRenewed(r)
    <3>1. pc'[r] # "refresh" /\ pc[r] # "reply" /\ lost' = lost
      BY <1>0, <2>4 DEF Start, Pick, CallStale, TakeRenewed, TaskOK
    <3>2. UNCHANGED <<key, rows, pool, live>>
      BY <2>4 DEF Start, Pick, CallStale, TakeRenewed, provider
    <3>. QED BY <1>0, <1>1, <3>1, <3>2, TokensStay
  <2>5. CASE SendRefresh(r)
    <3> DEFINE c == held[r].connection
    <3>1. /\ c \in Connections /\ index[r] \in DOMAIN pool /\ held[r] = pool[index[r]]
          /\ holder[c] = NoRequest
      BY <2>5, InHand DEF SendRefresh, IsRenewed, Current, HasLock
    <3>2. c \notin BeingRenewed
      <4>1. \A q \in Requests : pc[q] = "reply" => holder[held[q].connection] = q
        BY DEF HeldInv, Renewing
      <4>. QED BY <3>1, <4>1, RenewedNow, CredentialPoolAssumption
    <3>3. TokensOf(c)
      BY <3>1 DEF TokenInv
    <3>4. c \notin lost => held[r].refresh = live[c].refresh
      BY <3>1, <3>2, <3>3 DEF TokensOf
    <3>5. UNCHANGED <<key, rows, pool, live, held, lost>> /\ pc[r] = "lock"
      BY <2>5 DEF SendRefresh, provider
    <3>. QED BY <1>0, <1>1, <3>4, <3>5, TokensStay
  <2>. QED BY <1>1, <2>1, <2>2, <2>3, <2>4, <2>5 DEF OfRequest, Step, Upstream
<1>2. ASSUME NEW e \in Connections, Expire(e) PROVE TokenInv'
  <2> DEFINE n == [rows[e] EXCEPT !.expiry = IF rows[e].expiry = "live" THEN "past" ELSE rows[e].expiry]
  <2>1. rows' = [rows EXCEPT ![e] = n] /\ rows[e] \in RowsOfTable
    BY <1>0, <1>2 DEF Expire, ExecutorOK, Connections
  <2>2. n.refresh = rows[e].refresh /\ n.access = rows[e].access
    BY <2>1 DEF RowsOfTable
  <2>3. \A c \in Connections : rows'[c].refresh = rows[c].refresh /\ rows'[c].access = rows[c].access
    <3>. HIDE DEF n
    <3>. QED BY <1>0, <1>2, <2>1, <2>2 DEF ExecutorOK, Connections
  <2>4. UNCHANGED <<key, pool, live, lost, pc, held, BeingRenewed>>
    BY <1>2 DEF Expire, task, BeingRenewed
  <2>. HIDE DEF n
  <2>. QED BY <1>0, <2>3, <2>4 DEF TokenInv, TokensOf, AgeOf, SentBy
<1>3. CASE Restart
  <2>1. UNCHANGED <<key, rows, live>> /\ pool' = LoadCredentials(rows)
    BY <1>3 DEF Restart, provider
  <2>2. \A i \in DOMAIN pool' : /\ pool'[i].connection \in Connections
                                /\ pool'[i].refresh = rows[pool'[i].connection].refresh
    BY <1>0, <2>1, Loaded DEF ExecutorOK, Connections, Credential
  <2>3. \A c \in Connections : c \notin lost' => /\ c \notin lost \union BeingRenewed
                                                 /\ ~key => rows[c].access = live[c].access
    BY <1>3 DEF Restart, BeingRenewed
  <2>4. \A c \in Connections : c \notin lost' => rows[c].refresh = live[c].refresh
    BY <2>3 DEF TokenInv, TokensOf, AgeOf, TypeOK, ExecutorOK
  <2>5. \A q \in Requests : pc'[q] # "refresh"
    BY <1>0, <1>3 DEF Restart, Running, TaskOK
  <2>. QED BY <1>0, <2>1, <2>2, <2>4, <2>5 DEF TokenInv, TokensOf, AgeOf, SentBy
<1>4. CASE UNCHANGED vars
  BY <1>4 DEF vars, task, provider, BeingRenewed, Connections,
               TokenInv, TokensOf, AgeOf, SentBy
<1>. QED BY <1>1, <1>2, <1>3, <1>4, Steps

-----------------------------------------------------------------------------
(* Tries *)

\* How many tries there are.
LEMMA Limits ==
  ASSUME ExecutorOK
  PROVE  /\ Size \in Nat /\ Len(rows) \in Nat
         /\ AtLeastOne(Size) \in Nat \ {0} /\ AtLeastOne(Len(rows)) \in Nat
         /\ Size <= AtLeastOne(Size) /\ AtLeastOne(Size) <= AtLeastOne(Len(rows))
         /\ pool # <<>> => AtLeastOne(Size) = Size /\ Size \in Nat \ {0}
<1>1. Size \in Nat /\ Len(rows) \in Nat /\ Size <= Len(rows) /\ (pool # <<>> => Size \in Nat \ {0})
  BY DEF ExecutorOK, Size
<1>. QED BY <1>1 DEF AtLeastOne

\* No more tries than credentials, and for a completion as many.
LEMMA AttemptsBounded ==
  ASSUME ExecutorOK, NEW r \in Requests
  PROVE  /\ Attempts(r) \in Nat /\ Attempts(r) <= AtLeastOne(Size)
         /\ pool # <<>> /\ (mode[r] = "complete" \/ executor = "exa") => Attempts(r) = Size
<1>1. PooledTries = AtLeastOne(Size)
  <2>1. Size \in Nat
    BY Limits
  <2>. QED BY <2>1, MaxOfOne, Zenon DEF PooledTries
<1>. QED BY <1>1, Limits DEF Attempts, ExaTries, GeminiTries, GrokTries

\* A stretch of places grows by its next one.
LEMMA OnePlaceMore ==
  ASSUME NEW a \in Int, NEW b \in Int, a <= b + 1
  PROVE  a .. (b + 1) = (a .. b) \union {b + 1}
OBVIOUS

\* A further pick goes on to the next place of the ring.
LEMMA AroundNext ==
  ASSUME TypeOK, NEW r \in Requests, Pick(r), Around(r), pool # <<>>, tries[r] < Size
  PROVE  Around(r)'
<1>1. /\ Size \in Nat \ {0} /\ Size' = Size /\ cursor \in 0 .. Size - 1 /\ tries[r] \in Nat
      /\ cursor' = IF cursor + 1 = Size THEN 0 ELSE cursor + 1
      /\ tries'[r] = tries[r] + 1 /\ tried'[r] = tried[r] \union {cursor + 1}
  <2>1. Size \in Nat \ {0} /\ cursor \in 0 .. Size - 1
    BY CursorTurns, Limits DEF TypeOK
  <2>2. cursor' = IF cursor + 1 = Size THEN 0 ELSE cursor + 1
    BY CursorTurns DEF Pick, TypeOK
  <2>3. tried' = [tried EXCEPT ![r] = @ \union {cursor + 1}]
    BY <2>1 DEF Pick
  <2>. QED BY <2>1, <2>2, <2>3 DEF Pick, TypeOK, TaskOK, Size
<1> DEFINE t == tries[r]
<1>2. PICK s \in 0 .. Size - 1 :
        \/ s + t < Size /\ cursor = s + t /\ tried[r] = s + 1 .. s + t
        \/ /\ s + t >= Size /\ cursor = s + t - Size
           /\ tried[r] = (s + 1 .. Size) \union (1 .. s + t - Size)
  BY DEF Around
<1>. SUFFICES \/ /\ s + (t + 1) < Size
                 /\ cursor' = s + (t + 1) /\ tried'[r] = s + 1 .. s + (t + 1)
              \/ /\ s + (t + 1) >= Size
                 /\ cursor' = s + (t + 1) - Size
                 /\ tried'[r] = (s + 1 .. Size) \union (1 .. s + (t + 1) - Size)
  BY <1>1 DEF Around
<1>. t \in Nat /\ t < Size
  BY <1>1
<1>. HIDE DEF t
<1>3. CASE s + t < Size
  <2>1. cursor = s + t /\ tried[r] = s + 1 .. s + t
    BY <1>1, <1>2, <1>3
  <2>2. tried'[r] = s + 1 .. s + (t + 1)
    <3>1. s + 1 .. s + (t + 1) = (s + 1 .. s + t) \union {s + t + 1}
      <4>1. s + 1 \in Int /\ s + t \in Int /\ s + 1 <= s + t + 1 /\ s + (t + 1) = s + t + 1
        OBVIOUS
      <4>. QED BY ONLY <4>1, OnePlaceMore
    <3>2. tried'[r] = (s + 1 .. s + t) \union {s + t + 1}
      BY <1>1, <2>1, Zenon
    <3>. QED BY ONLY <3>1, <3>2
  <2>3. CASE s + (t + 1) < Size
    BY <1>1, <2>1, <2>2, <2>3
  <2>4. CASE s + (t + 1) = Size
    <3>1. cursor' = 0
      BY <1>1, <2>1, <2>4
    <3>2. 1 .. s + (t + 1) - Size = {}
      BY <1>1, <2>4
    <3>. QED BY <1>1, <2>2, <2>4, <3>1, <3>2
  <2>. QED BY <1>1, <1>3, <2>3, <2>4
<1>4. CASE s + t >= Size
  <2>1. cursor = s + t - Size /\ tried[r] = (s + 1 .. Size) \union (1 .. s + t - Size)
    BY <1>1, <1>2, <1>4
  <2>2. cursor + 1 < Size /\ cursor' = s + (t + 1) - Size
    BY <1>1, <1>4, <2>1
  <2>3. 1 .. s + (t + 1) - Size = (1 .. s + t - Size) \union {s + t - Size + 1}
    <3>1. /\ 1 \in Int /\ s + t - Size \in Int /\ 1 <= s + t - Size + 1
          /\ s + (t + 1) - Size = s + t - Size + 1
      BY <1>1, <1>4
    <3>. QED BY ONLY <3>1, OnePlaceMore
  <2>4. cursor + 1 = s + t - Size + 1 /\ s + (t + 1) >= Size
    BY <1>1, <1>4, <2>1
  <2>5. tried'[r] = (s + 1 .. Size) \union (1 .. s + (t + 1) - Size)
    <3>1. tried'[r] = ((s + 1 .. Size) \union (1 .. s + t - Size)) \union {s + t - Size + 1}
      BY <1>1, <2>1, <2>4, Zenon
    <3>. QED BY ONLY <2>3, <3>1
  <2>. QED BY <2>2, <2>4, <2>5, Zenon
<1>. QED BY <1>1, <1>3, <1>4, SMTT(60)

\* Nothing is tried at first.
LEMMA TriesInit == Init => TriesInv
<1>. SUFFICES ASSUME Init, NEW r \in Requests PROVE TriesOf(r)
  BY DEF TriesInv
<1>1. ExecutorOK
  BY TypeInit DEF TypeOK
<1>. QED BY <1>1, Limits DEF Init, TriesOf, Running

\* A step leaves what was tried an arc of the ring.
LEMMA TriesStep == TypeOK /\ PoolInv /\ HeldInv /\ TriesInv /\ [Next]_vars => TriesInv'
<1>. SUFFICES ASSUME TypeOK, PoolInv, HeldInv, TriesInv, [Next]_vars PROVE TriesInv'
  OBVIOUS
<1>0. /\ Len(rows') = Len(rows) /\ TaskOK /\ ExecutorOK /\ \A r \in Requests : TriesOf(r)
  BY ConnectionsStay, SMTT(60) DEF TypeOK, TriesInv
<1>1. executor' = executor
  BY ZenonT(60) DEF Next, vars, Reject, Start, Step, Upstream, HangUp, Restart, Pick, TakeRenewed,
         NothingToRenewWith, SendRefresh, Renewed, RenewalLost, CallOk, CallFails, CallStale,
         Renews, RefreshFails, Expire
<1>2. SUFFICES ASSUME NEW q \in Requests PROVE TriesOf(q)'
  BY DEF TriesInv, TriesOf
<1>3. CASE Restart
  BY <1>0, <1>3, Limits DEF Restart, Running, TriesOf, TaskOK
<1>4. ASSUME UNCHANGED vars \/ \E c \in Connections : Expire(c) PROVE TriesOf(q)'
  <2>1. UNCHANGED <<pool, cursor, restarted, task>>
    BY <1>4 DEF vars, Expire
  <2>2. Around(q)' <=> Around(q)
    BY <2>1 DEF task, Around, Size
  <2>. QED BY <1>0, <1>1, <2>1, <2>2 DEF task, TriesOf, Running, Size
<1>5. ASSUME NEW r \in Requests, OfRequest(r), ~Restart PROVE TriesOf(q)'
  <2>0. /\ Size' = Size /\ Size \in Nat /\ (pool' # <<>> <=> pool # <<>>)
        /\ restarted' = restarted
    <3>1. Size' = Size
      BY <1>5, PoolStays
    <3>2. ExecutorOK'
      BY ExecutorTypes
    <3>3. restarted' = restarted
      BY <1>5 DEF OfRequest, Reject, Start, Step, Upstream, HangUp, Pick, TakeRenewed,
         NothingToRenewWith, SendRefresh, Renewed, RenewalLost, CallOk, CallFails, CallStale,
         Renews, RefreshFails
    <3>. QED BY <1>0, <3>1, <3>2, <3>3 DEF ExecutorOK, Size
  <2>1. \/ Pick(r)
        \/ cursor' = cursor /\ crossed' = crossed /\ tries' = tries /\ tried' = tried
    BY <1>5 DEF OfRequest, Reject, Start, Step, Upstream, HangUp, Pick, TakeRenewed, SendRefresh,
         NothingToRenewWith, Renewed, RenewalLost, CallOk, CallFails, CallStale, Renews, RefreshFails
  <2>2. CASE q # r
    <3>1. /\ pc'[q] = pc[q] /\ tries'[q] = tries[q] /\ tried'[q] = tried[q]
          /\ outcome'[q] = outcome[q] /\ mode'[q] = mode[q]
      BY <1>5, <2>2, Others
    <3>2. ~crossed'[q] => ~crossed[q] /\ (Running(q) => cursor' = cursor)
      BY <1>0, <2>1, <2>2 DEF Pick, TaskOK
    <3>3. Around(q) /\ cursor' = cursor => Around(q)'
      BY <2>0, <3>1 DEF Around
    <3>. QED BY <1>0, <1>1, <2>0, <3>1, <3>2, <3>3 DEF TriesOf, Running
  <2>. SUFFICES ASSUME q = r PROVE TriesOf(r)'
    BY <2>2
  <2>3. CASE Pick(r)
    <3>1. /\ pc'[r] = "call" /\ tries'[r] = tries[r] + 1 /\ tries[r] \in Nat
          /\ crossed'[r] = crossed[r] /\ UNCHANGED <<outcome, mode, pool>> /\ pc[r] = "try"
      BY <1>0, <2>3 DEF Pick, TaskOK
    <3>2. tries'[r] <= AtLeastOne(Size) /\ tries'[r] <= AtLeastOne(Len(rows))
      BY <1>0, <3>1, Limits DEF TriesOf
    <3>3. ~restarted /\ ~crossed[r] /\ pool # <<>> => Around(r)'
      <4>1. SUFFICES ASSUME ~restarted, ~crossed[r], pool # <<>> PROVE Around(r)'
        OBVIOUS
      <4>2. Around(r) /\ tries[r] < Size
        BY <1>0, <3>1, <4>1, Limits DEF TriesOf, Running
      <4>. QED BY <2>3, <4>1, <4>2, AroundNext
    <3>. QED BY <1>0, <2>0, <3>1, <3>2, <3>3 DEF TriesOf, Running
  <2>. SUFFICES ASSUME cursor' = cursor, crossed' = crossed, tries' = tries, tried' = tried
                PROVE TriesOf(r)'
    BY <2>1, <2>3
  <2>4. Around(r)' <=> Around(r)
    BY <2>0 DEF Around
  <2>5. CASE Start(r)
    <3>1. /\ pc[r] = "idle" /\ pc'[r] = "try" /\ outcome' = outcome
          /\ tries[r] = 0 /\ tried[r] = {} /\ outcome[r] = "none"
      BY <1>0, <2>5 DEF Start, TaskOK, TriesOf
    <3>2. pool # <<>> => Around(r)
      <4>1. pool # <<>> => /\ cursor \in 0 .. Size - 1 /\ cursor + 0 < Size /\ cursor = cursor + 0
                          /\ cursor + 1 .. cursor + 0 = {}
        BY <1>0, CursorTurns
      <4>. QED BY <3>1, <4>1 DEF Around
    <3>. QED BY <1>0, <2>0, <2>4, <3>1, <3>2, Limits DEF TriesOf, Running
  <2>6. CASE Reject(r) \/ CallOk(r) \/ HangUp(r)
    <3>1. /\ pc'[r] = "done" /\ outcome'[r] \in {"invalid", "ok", "left"}
      BY <1>0, <2>6 DEF Reject, CallOk, HangUp, Ends, TaskOK
    <3>. QED BY <1>0, <2>0, <3>1 DEF TriesOf, Running
  <2>7. CASE CallFails(r) \/ NothingToRenewWith(r) \/ RefreshFails(r) \/ RenewalLost(r)
    <3>1. /\ Failed(r) /\ pc[r] \in {"call", "recall", "lock", "refresh", "reply"} /\ mode' = mode
      BY <2>7 DEF CallFails, NothingToRenewWith, RefreshFails, RenewalLost
    <3>2. /\ tries[r] \in Nat /\ tries[r] <= AtLeastOne(Size) /\ outcome[r] # "failed"
          /\ ~restarted /\ ~crossed[r] /\ pool # <<>> => Around(r)
      BY <1>0, <3>1 DEF TriesOf, Running, TaskOK
    <3>3. CASE tries[r] < Attempts(r)
      <4>1. pc'[r] = "try" /\ outcome' = outcome
        BY <1>0, <3>1, <3>3 DEF Failed, TaskOK
      <4>2. tries[r] < AtLeastOne(Size) /\ tries[r] < AtLeastOne(Len(rows))
        BY <1>0, <3>2, <3>3, AttemptsBounded, Limits
      <4>. QED BY <1>0, <2>0, <2>4, <3>2, <4>1, <4>2 DEF TriesOf, Running
    <3>4. CASE ~(tries[r] < Attempts(r))
      <4>1. pc'[r] = "done" /\ outcome'[r] = "failed"
        BY <1>0, <3>1, <3>4 DEF Failed, Ends, TaskOK
      <4>2. ASSUME ~restarted, ~crossed[r], pool # <<>>, mode[r] = "complete" \/ executor = "exa"
            PROVE  tried[r] = 1 .. Size
        <5>1. tries[r] = Size /\ Around(r)
          BY <1>0, <3>2, <3>4, <4>2, AttemptsBounded, Limits
        <5>2. PICK s \in 0 .. Size - 1 :
                /\ s + tries[r] >= Size
                /\ tried[r] = (s + 1 .. Size) \union (1 .. s + tries[r] - Size)
          BY <2>0, <3>2, <5>1 DEF Around
        <5>3. tried[r] = (s + 1 .. Size) \union (1 .. s)
          <6>1. s + tries[r] - Size = s
            BY <2>0, <5>1
          <6>. QED BY <5>2, <6>1
        <5>4. (s + 1 .. Size) \union (1 .. s) = 1 .. Size
          BY <2>0
        <5>. QED BY <5>3, <5>4
      <4>. QED BY <1>0, <1>1, <2>0, <3>1, <4>1, <4>2 DEF TriesOf, Running
    <3>. QED BY <3>3, <3>4
  <2>8. CASE CallStale(r) \/ TakeRenewed(r) \/ SendRefresh(r) \/ Renews(r) \/ Renewed(r)
    <3>1. /\ pc[r] \notin {"idle", "try", "done"} /\ pc'[r] \notin {"idle", "try", "done"}
          /\ outcome' = outcome /\ mode' = mode
      BY <1>0, <2>8 DEF CallStale, TakeRenewed, SendRefresh, Renews, Renewed, TaskOK
    <3>. QED BY <1>0, <1>1, <2>0, <2>4, <3>1 DEF TriesOf, Running
  <2>. QED BY <1>5, <2>3, <2>5, <2>6, <2>7, <2>8 DEF OfRequest, Step, Upstream
<1>. QED BY <1>3, <1>4, <1>5, Steps

-----------------------------------------------------------------------------
(* The theorems *)

\* However requests, renewals, lost answers, rejections and restarts interleave, a
\* connection is renewed under its lock, and what was tried is an arc of the pool.
THEOREM CredentialsInvariance == Spec => []IInv
<1>1. Init => IInv
  BY TypeInit, TokenInit, TriesInit DEF IInv
<1>2. IInv /\ [Next]_vars => IInv'
  BY TypeStep, PoolStep, HeldStep, TokenStep, TriesStep DEF IInv
<1>. QED BY <1>1, <1>2, PTL DEF Spec

\* Every part of the state keeps its type; the cursor is of the pool, and no pool
\* is longer than the table it is loaded from.
THEOREM CredentialsTypeCorrect == Spec => []TypeOK
<1>1. IInv => TypeOK
  BY DEF IInv
<1>. QED BY <1>1, CredentialsInvariance, PTL

\* The lock of a credential does its work: two requests never trade the same
\* refresh token at the same time, and nobody holds the lock but to trade it.
OneRenewsAtATime ==
    /\ \A q, r \in Requests :
         Renewing(q) /\ Renewing(r) /\ held[q].connection = held[r].connection => q = r
    /\ \A c \in Connections : holder[c] # NoRequest =>
         Renewing(holder[c]) /\ held[holder[c]].connection = c

\* No two requests renew one connection's token at a time, for every pool.
THEOREM OneRenewer == Spec => []OneRenewsAtATime
<1>1. IInv => OneRenewsAtATime
  BY DEF IInv, HeldInv, TypeOK, ExecutorOK, OneRenewsAtATime
<1>. QED BY <1>1, CredentialsInvariance, PTL

\* As long as no answer of the provider is lost on the way, memory and, with a
\* storage key, the table hold the refresh token the provider expects next, and
\* no token it has replaced is sent.
THEOREM RenewalsKept == Spec => []RenewalsAreKept
<1>1. IInv => RenewalsAreKept
  <2>. SUFFICES ASSUME IInv PROVE RenewalsAreKept
    OBVIOUS
  <2>1. \A i \in DOMAIN pool : pool[i].connection \in Connections
    BY DEF IInv, PoolInv
  <2>2. \A c \in Connections : TokensOf(c)
    BY DEF TokenInv, IInv
  <2>3. \A r \in Requests : SentBy(r)
    BY DEF TokenInv, IInv
  <2>. QED BY <2>1, <2>2, <2>3 DEF TokensOf, SentBy, RenewalsAreKept
<1>. QED BY <1>1, CredentialsInvariance, PTL

\* A request that gives up, and that no other crossed, was sent with every
\* credential there is; no request is sent more often than there are credentials.
THEOREM WholePoolTried == Spec => []TriesWholePool
<1>1. IInv => TriesWholePool
  <2>. SUFFICES ASSUME IInv, NEW r \in Requests
                PROVE  /\ tries[r] <= Max({Len(rows), 1})
                       /\ outcome[r] = "failed" /\ (mode[r] = "complete" \/ executor = "exa")
                             /\ ~crossed[r] /\ ~restarted /\ pool # <<>>
                          => tried[r] = DOMAIN pool
    BY DEF TriesWholePool
  <2>1. ExecutorOK /\ TriesOf(r) /\ DOMAIN pool = 1 .. Size
    BY CursorTurns DEF IInv, TypeOK, TriesInv
  <2>2. Max({Len(rows), 1}) = AtLeastOne(Len(rows))
    <3>1. Len(rows) \in Nat
      BY <2>1, Limits
    <3>. QED BY <3>1, MaxOfOne, Zenon
  <2>3. tries[r] <= Max({Len(rows), 1})
    BY <2>1, <2>2 DEF TriesOf
  <2>. QED BY <2>1, <2>3 DEF TriesOf
<1>. QED BY <1>1, CredentialsInvariance, PTL

-----------------------------------------------------------------------------
(* A finite set can be sorted by pairs that compare any two of its         *)
(* members, and then every member stands somewhere.                        *)

\* Induction over the subsets of a finite set.
LEMMA SmallerFirst ==
  ASSUME NEW U, IsFiniteSet(U), NEW Good,
         \A T \in SUBSET U : (\A V \in SUBSET T : V # T => V \in Good) => T \in Good
  PROVE  SUBSET U \subseteq Good
<1>1. SUFFICES ASSUME (SUBSET U) \ Good # {} PROVE FALSE
  OBVIOUS
<1> DEFINE R == StrictSubsetOrdering(U)
<1>2. IsWellFoundedOn(R, SUBSET U)
  BY FS_StrictSubsetOrderingWellFounded, FS_FiniteSubsetsOfFinite
<1>3. \A V, T \in SUBSET U : <<V, T>> \in R <=> V \subseteq T /\ V # T
  BY DEF StrictSubsetOrdering
<1>4. \E T \in (SUBSET U) \ Good : \A V \in (SUBSET U) \ Good : ~(<<V, T>> \in R)
  <2>1. (SUBSET U) \ Good \subseteq SUBSET U
    OBVIOUS
  <2> DEFINE Bad == (SUBSET U) \ Good
             Sets == SUBSET U
  <2>2. IsWellFoundedOn(R, Sets) /\ Bad \subseteq Sets /\ Bad # {}
    BY <1>1, <1>2
  <2>. HIDE DEF R, Bad, Sets
  <2>3. \E T \in Bad : \A V \in Bad : ~(<<V, T>> \in R)
    BY <2>2, WFMin
  <2>. QED BY <2>3 DEF Bad
<1>5. PICK T \in (SUBSET U) \ Good : \A V \in (SUBSET U) \ Good : ~(V \subseteq T /\ V # T)
  BY <1>3, <1>4
<1>. QED BY <1>5

\* The pairs compare any two members, and no member with itself.
Compares(set, pairs) ==
    /\ \A x \in set : <<x, x>> \notin pairs
    /\ \A x, y \in set : x # y => <<x, y>> \in pairs \/ <<y, x>> \in pairs
    /\ \A x, y, z \in set : <<x, y>> \in pairs /\ <<y, z>> \in pairs => <<x, z>> \in pairs

\* Finitely many members, if any, have a last one.
LEMMA LastIs ==
  ASSUME NEW set, IsFiniteSet(set), NEW pairs, Compares(set, pairs), set # {}
  PROVE  \E m \in set : \A x \in set : x # m => <<x, m>> \in pairs
<1> DEFINE Good == {T \in SUBSET set :
                       T # {} => \E m \in T : \A x \in T : x # m => <<x, m>> \in pairs}
<1>1. ASSUME NEW T \in SUBSET set, \A V \in SUBSET T : V # T => V \in Good
      PROVE  T \in Good
  <2>. SUFFICES ASSUME T # {} PROVE \E m \in T : \A x \in T : x # m => <<x, m>> \in pairs
    OBVIOUS
  <2>1. PICK z \in T : TRUE
    OBVIOUS
  <2>2. T \ {z} \in Good
    BY <1>1, <2>1
  <2>3. CASE T \ {z} = {}
    BY <2>1, <2>3
  <2>4. CASE T \ {z} # {}
    <3>1. PICK m \in T \ {z} : \A x \in T \ {z} : x # m => <<x, m>> \in pairs
      BY <2>2, <2>4
    <3>2. CASE <<z, m>> \in pairs
      BY <3>1, <3>2
    <3>3. CASE <<m, z>> \in pairs
      <4>1. ASSUME NEW x \in T, x # z PROVE <<x, z>> \in pairs
        BY <3>1, <3>3, <4>1 DEF Compares
      <4>. QED BY <2>1, <4>1
    <3>. QED BY <2>1, <3>1, <3>2, <3>3 DEF Compares
  <2>. QED BY <2>3, <2>4
<1>2. SUBSET set \subseteq Good
  <2>. HIDE DEF Good
  <2>. QED BY <1>1, SmallerFirst
<1>3. set \in Good
  BY <1>2
<1>. QED BY <1>3

\* A sequence of the members in order.
InOrder(seq, set, pairs) ==
    /\ seq \in [1 .. Cardinality(set) -> set]
    /\ \A i, j \in 1 .. Cardinality(set) : i < j => <<seq[i], seq[j]>> \in pairs

LEMMA OrderExists ==
  ASSUME NEW set, IsFiniteSet(set), NEW pairs, Compares(set, pairs)
  PROVE  \E seq : InOrder(seq, set, pairs)
<1> DEFINE Good == {T \in SUBSET set : \E seq : InOrder(seq, T, pairs)}
<1>1. ASSUME NEW T \in SUBSET set, \A V \in SUBSET T : V # T => V \in Good
      PROVE  T \in Good
  <2>0. IsFiniteSet(T) /\ Cardinality(T) \in Nat /\ Compares(T, pairs)
    BY FS_Subset, FS_CardinalityType DEF Compares
  <2>1. CASE T = {}
    <3>1. Cardinality(T) = 0
      BY <2>1, FS_EmptySet
    <3>2. InOrder([i \in 1 .. 0 |-> i], T, pairs)
      BY <2>1, <3>1 DEF InOrder
    <3>. QED BY <3>2
  <2>2. CASE T # {}
    <3>1. PICK m \in T : \A x \in T : x # m => <<x, m>> \in pairs
      BY <2>0, <2>2, LastIs
    <3> DEFINE V == T \ {m}
               n == Cardinality(V)
    <3>2. IsFiniteSet(V) /\ n \in Nat /\ Cardinality(T) = n + 1
      <4>1. /\ IsFiniteSet(T \ {m})
            /\ Cardinality(T \ {m}) = IF m \in T THEN Cardinality(T) - 1 ELSE Cardinality(T)
        BY <2>0, FS_RemoveElement
      <4>2. n \in Nat
        BY <4>1, FS_CardinalityType
      <4>. QED BY <2>0, <4>1, <4>2
    <3>3. PICK seq : InOrder(seq, V, pairs)
      <4>1. V \in Good
        BY <1>1, <3>1
      <4>. QED BY <4>1
    <3> DEFINE more == [i \in 1 .. n + 1 |-> IF i = n + 1 THEN m ELSE seq[i]]
    <3>4. V \subseteq T /\ m \notin V
      OBVIOUS
    <3>. HIDE DEF V, n
    <3>5. /\ seq \in [1 .. n -> V]
          /\ \A i, j \in 1 .. n : i < j => <<seq[i], seq[j]>> \in pairs
      BY <3>3 DEF InOrder, n
    <3>6. \A i \in 1 .. n + 1 : i # n + 1 => i \in 1 .. n
      BY <3>2
    <3>7. more \in [1 .. n + 1 -> T]
      BY <3>1, <3>4, <3>5, <3>6
    <3>8. ASSUME NEW i \in 1 .. n + 1, NEW j \in 1 .. n + 1, i < j
          PROVE  <<more[i], more[j]>> \in pairs
      <4>1. i \in 1 .. n /\ i # n + 1 /\ more[i] = seq[i] /\ seq[i] \in V
        BY <3>2, <3>5, <3>8
      <4>2. CASE j = n + 1
        BY <3>1, <3>4, <4>1, <4>2
      <4>3. CASE j # n + 1
        BY <3>5, <3>6, <3>8, <4>1, <4>3
      <4>. QED BY <4>2, <4>3
    <3>9. InOrder(more, T, pairs)
      <4>. HIDE DEF more
      <4>. QED BY <3>2, <3>7, <3>8 DEF InOrder
    <3>. QED BY <3>9
  <2>. QED BY <2>1, <2>2
<1>2. SUBSET set \subseteq Good
  <2>. HIDE DEF Good
  <2>. QED BY <1>1, SmallerFirst
<1>3. set \in Good
  BY <1>2
<1>. QED BY <1>3

\* What a sorted set is, and that nobody is left out or stands twice.
LEMMA SortedIs ==
  ASSUME NEW set, IsFiniteSet(set), NEW pairs, Compares(set, pairs)
  PROVE  /\ InOrder(Sorted(set, pairs), set, pairs)
         /\ \A x \in set : \E i \in 1 .. Cardinality(set) : Sorted(set, pairs)[i] = x
<1> DEFINE n == Cardinality(set)
           s == Sorted(set, pairs)
<1>1. n \in Nat
  BY FS_CardinalityType
<1>2. InOrder(s, set, pairs)
  <2>1. \E seq \in [1 .. n -> set] :
            \A i, j \in DOMAIN seq : i < j => <<seq[i], seq[j]>> \in pairs
    <3>1. PICK seq : InOrder(seq, set, pairs)
      BY OrderExists
    <3>. QED BY <3>1 DEF InOrder
  <2>2. /\ s \in [1 .. n -> set]
        /\ \A i, j \in DOMAIN s : i < j => <<s[i], s[j]>> \in pairs
    BY <2>1 DEF Sorted
  <2>. QED BY <2>2 DEF InOrder
<1>3. s \in Injection(1 .. n, set)
  <2>1. ASSUME NEW i \in 1 .. n, NEW j \in 1 .. n, s[i] = s[j] PROVE i = j
    <3>. HIDE DEF s, n
    <3>1. i < j \/ j < i \/ i = j
      BY <1>1
    <3>2. s[i] \in set
      BY <1>2 DEF InOrder, n
    <3>. QED BY <1>2, <2>1, <3>1, <3>2 DEF InOrder, Compares, n
  <2>2. s \in [1 .. n -> set]
    BY <1>2 DEF InOrder
  <2>. HIDE DEF s, n
  <2>. QED BY <2>1, <2>2 DEF Injection, IsInjective
<1>4. s \in Surjection(1 .. n, set)
  <2>1. Cardinality(1 .. n) = n
    BY <1>1, FS_Interval
  <2>. HIDE DEF s
  <2>. QED BY <1>3, <2>1, FS_Injection
<1>. HIDE DEF s
<1>5. \A x \in set : \E i \in 1 .. n : s[i] = x
  BY <1>4 DEF Surjection
<1>. QED BY <1>2, <1>5 DEF s

-----------------------------------------------------------------------------
(* The backends of a start depend on which connections are active, and not *)
(* on the order in which a pool lists them.                                *)

ConnectionRow == [provider : STRING, priority : Int, active : BOOLEAN, usable : BOOLEAN]

\* The rows of a pool can be ranked.
LEMMA RanksCompare ==
  ASSUME NEW table \in Seq(ConnectionRow), NEW ids \in SUBSET DOMAIN table
  PROVE  IsFiniteSet(ids) /\ Compares(ids, RankedBefore(table, ids))
<1>1. IsFiniteSet(ids)
  <2>1. DOMAIN table = 1 .. Len(table) /\ Len(table) \in Nat
    OBVIOUS
  <2>2. IsFiniteSet(DOMAIN table)
    BY <2>1, FS_Interval
  <2>. QED BY <2>2, FS_Subset
<1>2. \A c \in ids : c \in Int /\ table[c].priority \in Int
  <2>1. \A c \in DOMAIN table : c \in Int /\ table[c] \in ConnectionRow
    OBVIOUS
  <2>. QED BY <2>1 DEF ConnectionRow
<1>3. ASSUME NEW c \in ids, NEW d \in ids
      PROVE  <<c, d>> \in RankedBefore(table, ids) <=>
                 \/ table[c].priority > table[d].priority
                 \/ table[c].priority = table[d].priority /\ c < d
  <2> DEFINE p == <<c, d>>
  <2>1. p \in ids \X ids /\ p[1] = c /\ p[2] = d
    OBVIOUS
  <2>. HIDE DEF p
  <2>2. p \in RankedBefore(table, ids) <=>
            \/ table[p[1]].priority > table[p[2]].priority
            \/ table[p[1]].priority = table[p[2]].priority /\ p[1] < p[2]
    BY <2>1 DEF RankedBefore
  <2>. QED BY <2>1, <2>2 DEF p
<1> DEFINE pairs == RankedBefore(table, ids)
<1>. HIDE DEF pairs
<1>4. \A c, d \in ids :
         <<c, d>> \in pairs <=>
             \/ table[c].priority > table[d].priority
             \/ table[c].priority = table[d].priority /\ c < d
  BY <1>3 DEF pairs
<1>5. Compares(ids, pairs)
  <2> DEFINE rank(c) == table[c].priority
  <2>1. \A c \in ids : c \in Int /\ rank(c) \in Int
    BY <1>2
  <2>2. \A c, d \in ids :
           <<c, d>> \in pairs <=> rank(c) > rank(d) \/ (rank(c) = rank(d) /\ c < d)
    BY <1>4
  <2>. HIDE DEF rank
  <2>3. \A x \in ids : <<x, x>> \notin pairs
    BY <2>1, <2>2
  <2>4. \A x, y \in ids : x # y => <<x, y>> \in pairs \/ <<y, x>> \in pairs
    BY <2>1, <2>2
  <2>5. ASSUME NEW x \in ids, NEW y \in ids, NEW z \in ids,
               <<x, y>> \in pairs, <<y, z>> \in pairs
        PROVE  <<x, z>> \in pairs
    BY <2>1, <2>2, <2>5
  <2>. QED BY <2>3, <2>4, <2>5 DEF Compares
<1>. QED BY <1>1, <1>5 DEF pairs

\* The active connections of a provider that can be used.
UsableOf(table, name) == {c \in Active(table, name) : table[c].usable}

\* A pool holds these, and is empty if there are none.
LEMMA PoolIs ==
  ASSUME NEW table \in Seq(ConnectionRow), NEW name
  PROVE  LET list == load_credentials(table, name)
         IN  /\ {list[i] : i \in DOMAIN list} = UsableOf(table, name)
             /\ list = <<>> <=> UsableOf(table, name) = {}
<1> DEFINE ids == UsableOf(table, name)
           list == load_credentials(table, name)
           n == Cardinality(ids)
<1>1. ids \in SUBSET DOMAIN table
  BY DEF UsableOf, Active
<1>2. list = Sorted(ids, RankedBefore(table, ids))
  BY DEF load_credentials, Ranked, UsableOf
<1>. HIDE DEF ids, list
<1>3. IsFiniteSet(ids) /\ Compares(ids, RankedBefore(table, ids))
  BY <1>1, RanksCompare
<1>4. /\ InOrder(list, ids, RankedBefore(table, ids))
      /\ \A x \in ids : \E i \in 1 .. n : list[i] = x
  BY <1>2, <1>3, SortedIs
<1>5. list \in [1 .. n -> ids] /\ n \in Nat
  BY <1>3, <1>4, FS_CardinalityType DEF InOrder
<1>. HIDE DEF n
<1>6. {list[i] : i \in DOMAIN list} = ids
  BY <1>4, <1>5
<1>7. list = <<>> <=> ids = {}
  BY <1>4, <1>5
<1>. QED BY <1>6, <1>7 DEF ids, list

\* Two tables with the same connections active.
SameActive(table, after) ==
    /\ DOMAIN after = DOMAIN table
    /\ \A c \in DOMAIN table : /\ after[c].provider = table[c].provider
                               /\ after[c].active = table[c].active
                               /\ after[c].usable = table[c].usable

LEMMA SamePools ==
  ASSUME NEW table \in Seq(ConnectionRow), NEW after \in Seq(ConnectionRow),
         SameActive(table, after), NEW set
  PROVE  PoolsOf(select_backend(after, set)) = PoolsOf(select_backend(table, set))
<1> DEFINE list(t, p) == load_credentials(t, p)
<1>1. ASSUME NEW p
      PROVE  /\ {list(after, p)[i] : i \in DOMAIN list(after, p)}
                    = {list(table, p)[i] : i \in DOMAIN list(table, p)}
             /\ list(after, p) = <<>> <=> list(table, p) = <<>>
  <2>1. UsableOf(after, p) = UsableOf(table, p)
    BY DEF UsableOf, Active, SameActive
  <2>. QED BY <2>1, PoolIs
<1>2. ASSUME NEW p PROVE Servable(after, p) <=> Servable(table, p)
  BY <1>1 DEF Servable
<1> DEFINE providers(t) == {t[c].provider : c \in {d \in DOMAIN t : t[d].active}}
           own(t) == {p \in providers(t) \ set : Servable(t, p)}
           grok(t) == IF list(t, Grok) = <<>> THEN {} ELSE {Grok}
           backends(t) == set \union own(t) \union grok(t)
<1>3. providers(after) = providers(table)
  BY DEF SameActive
<1>4. grok(after) = grok(table)
  BY <1>1
<1>5. backends(after) = backends(table)
  <2>1. own(after) = own(table)
    <3>. HIDE DEF providers
    <3>. QED BY <1>2, <1>3
  <2>. HIDE DEF own, grok
  <2>. QED BY <1>4, <2>1
<1> DEFINE built(t) == [b \in backends(t) |-> IF b \in set THEN <<>> ELSE list(t, b)]
<1>6. select_backend(after, set) = built(after) /\ select_backend(table, set) = built(table)
  BY DEF select_backend
<1>. HIDE DEF backends, list
<1>7. ASSUME NEW b \in backends(table)
      PROVE  {built(after)[b][i] : i \in DOMAIN built(after)[b]}
                 = {built(table)[b][i] : i \in DOMAIN built(table)[b]}
  <2>1. CASE b \in set
    BY <1>5, <2>1
  <2>2. CASE b \notin set
    <3>1. built(after)[b] = list(after, b) /\ built(table)[b] = list(table, b)
      BY <1>5, <2>2
    <3>2. {list(after, b)[i] : i \in DOMAIN list(after, b)}
              = {list(table, b)[i] : i \in DOMAIN list(table, b)}
      BY ONLY <1>1
    <3>. HIDE DEF built
    <3>. QED BY ONLY <3>1, <3>2
  <2>. QED BY <2>1, <2>2
<1>8. DOMAIN built(after) = backends(table) /\ DOMAIN built(table) = backends(table)
  BY <1>5
<1> DEFINE new == built(after)
           old == built(table)
<1>9. /\ DOMAIN new = DOMAIN old
      /\ \A b \in DOMAIN old :
            {new[b][i] : i \in DOMAIN new[b]} = {old[b][i] : i \in DOMAIN old[b]}
  BY ONLY <1>7, <1>8
<1>. HIDE DEF built, new, old
<1>10. PoolsOf(new) = PoolsOf(old)
  BY ONLY <1>9 DEF PoolsOf
<1>. QED BY <1>6, <1>10 DEF new, old

-----------------------------------------------------------------------------
(* An administered gateway *)

AdministrationOK == connections \in Seq(ConnectionRow) /\ told \in BOOLEAN

\* What a PATCH of a connection makes of the table.
LEMMA PatchedTable ==
  ASSUME connections \in Seq(ConnectionRow),
         NEW c \in DOMAIN connections, NEW p \in ConnectionPatches
  PROVE  LET after == update_connection_meta(c, p)
         IN  /\ after \in Seq(ConnectionRow)
             /\ ~restart_required(connections, after, c) => SameActive(connections, after)
<1> DEFINE after == update_connection_meta(c, p)
           row == [connections[c] EXCEPT !.active = Given(p, "active", @),
                                         !.priority = Given(p, "priority", @)]
<1>1. connections[c] \in ConnectionRow
  OBVIOUS
<1>2. /\ Given(p, "active", connections[c].active) \in BOOLEAN
      /\ Given(p, "priority", connections[c].priority) \in Int
  <2>1. CASE p \in [{"active"} -> BOOLEAN]
    BY <1>1, <2>1 DEF Given, ConnectionRow
  <2>2. CASE p \in [{"priority"} -> Priorities]
    BY <1>1, <2>2, TablesAssumption DEF Given, ConnectionRow
  <2>. QED BY <2>1, <2>2 DEF ConnectionPatches
<1>3. /\ row \in ConnectionRow
      /\ row.provider = connections[c].provider /\ row.usable = connections[c].usable
      /\ row.active = Given(p, "active", connections[c].active)
  BY <1>1, <1>2 DEF ConnectionRow
<1>4. after = [connections EXCEPT ![c] = row]
  BY DEF update_connection_meta
<1>. HIDE DEF row, after
<1>5. after \in Seq(ConnectionRow)
  BY <1>3, <1>4
<1>6. DOMAIN after = DOMAIN connections /\ after[c] = row
  BY <1>4
<1>7. \A d \in DOMAIN connections : d # c => after[d] = connections[d]
  BY <1>4
<1>8. ASSUME ~restart_required(connections, after, c) PROVE SameActive(connections, after)
  <2>1. row.active = connections[c].active
    BY <1>6, <1>8 DEF restart_required
  <2>. QED BY <1>3, <1>6, <1>7, <2>1 DEF SameActive
<1>. QED BY <1>5, <1>8 DEF after

\* Nobody needs to be told of what a start has just read.
LEMMA AdministrationStart ==
  AdministrationInit => AdministrationOK /\ TellsWhenToRestart
BY TablesAssumption DEF AdministrationInit, AdministrationOK, TellsWhenToRestart, ConnectionRow

\* Only a PATCH changes the table, and only a start what runs.
LEMMA AdministrationStep ==
  AdministrationOK /\ TellsWhenToRestart /\ [AdministrationNext]_administrationVars =>
      AdministrationOK' /\ TellsWhenToRestart'
<1>. SUFFICES ASSUME AdministrationOK, TellsWhenToRestart,
                     [AdministrationNext]_administrationVars
              PROVE  AdministrationOK' /\ TellsWhenToRestart'
  OBVIOUS
<1>1. CASE UNCHANGED <<connections, env, running, told>>
  BY <1>1 DEF AdministrationOK, TellsWhenToRestart
<1>2. ASSUME NEW c \in DOMAIN connections, NEW p \in ConnectionPatches, PatchConnection(c, p)
      PROVE  AdministrationOK' /\ TellsWhenToRestart'
  <2>1. /\ connections' = update_connection_meta(c, p)
        /\ told' = (told \/ restart_required(connections, connections', c))
        /\ env' = env /\ running' = running
    BY <1>2 DEF PatchConnection
  <2>2. connections \in Seq(ConnectionRow) /\ told \in BOOLEAN
    BY DEF AdministrationOK
  <2>3. /\ connections' \in Seq(ConnectionRow)
        /\ ~restart_required(connections, connections', c) => SameActive(connections, connections')
    BY <2>1, <2>2, PatchedTable
  <2>4. told' \in BOOLEAN
    BY <2>1, <2>2 DEF restart_required
  <2>5. CASE told'
    BY <2>3, <2>4, <2>5 DEF AdministrationOK, TellsWhenToRestart
  <2>6. CASE ~told'
    <3>1. ~told /\ SameActive(connections, connections')
      BY <2>1, <2>2, <2>3, <2>6
    <3>2. PoolsOf(running) = PoolsOf(select_backend(connections, env))
      BY <3>1 DEF TellsWhenToRestart
    <3>3. PoolsOf(select_backend(connections', env)) = PoolsOf(select_backend(connections, env))
      BY <2>2, <2>3, <3>1, SamePools
    <3>4. PoolsOf(running') = PoolsOf(select_backend(connections', env'))
      BY <2>1, <3>2, <3>3
    <3>. QED BY <2>3, <2>4, <3>4 DEF AdministrationOK, TellsWhenToRestart
  <2>. QED BY <2>5, <2>6
<1>3. CASE Kickstart
  <2>1. /\ running' = select_backend(connections, env) /\ told' = FALSE
        /\ connections' = connections /\ env' = env
    BY <1>3 DEF Kickstart
  <2>. QED BY <2>1 DEF AdministrationOK, TellsWhenToRestart
<1>4. CASE UNCHANGED administrationVars
  BY <1>1, <1>4 DEF administrationVars
<1>5. ASSUME NEW c \in DOMAIN combos, NEW p \in ComboPatches, PatchCombo(c, p)
      PROVE  AdministrationOK' /\ TellsWhenToRestart'
  BY <1>1, <1>5 DEF PatchCombo
<1>6. CASE RestartService
  BY <1>1, <1>6 DEF RestartService
<1>7. ASSUME NEW model \in Asked, NEW dimensions \in BOOLEAN, Embed(model, dimensions)
      PROVE  AdministrationOK' /\ TellsWhenToRestart'
  BY <1>1, <1>7 DEF Embed
<1>8. ASSUME NEW p \in Payloads, NEW logged \in BOOLEAN, Answer(p, logged)
      PROVE  AdministrationOK' /\ TellsWhenToRestart'
  BY <1>1, <1>8 DEF Answer
<1>9. CASE EmbeddingDropped
  BY <1>1, <1>9 DEF EmbeddingDropped
<1>. QED BY <1>2, <1>3, <1>4, <1>5, <1>6, <1>7, <1>8, <1>9 DEF AdministrationNext

\* As long as no PATCH has answered that a restart is required since the last
\* start, the backends that run are those that a restart would build, each with
\* the same connections: for every table, registry, environment and number of
\* edits.  (admin.rs, update_connection; main.rs, select_backend)
THEOREM ToldToRestart == AdministrationSpec => []TellsWhenToRestart
<1>1. AdministrationSpec => [](AdministrationOK /\ TellsWhenToRestart)
  BY AdministrationStart, AdministrationStep, PTL DEF AdministrationSpec
<1>. QED BY <1>1, PTL

-----------------------------------------------------------------------------
(* The vectors of an answer stand in the order of the inputs.              *)

\* A set of numbers up to n has a first and a last, if it has any.
LEMMA FirstAndLast ==
  ASSUME NEW n \in Nat, NEW S \in SUBSET (1 .. n), S # {}
  PROVE  /\ \E m \in S : \A x \in S : x <= m
         /\ \E m \in S : \A x \in S : m <= x
<1> DEFINE up == {p \in S \X S : p[1] < p[2]}
           down == {p \in S \X S : p[1] > p[2]}
<1>1. IsFiniteSet(S)
  <2>1. IsFiniteSet(1 .. n)
    BY FS_Interval
  <2>. QED BY <2>1, FS_Subset
<1>2. \A x \in S : x \in Int
  OBVIOUS
<1>3. \A x, y \in S : (<<x, y>> \in up <=> x < y) /\ (<<x, y>> \in down <=> x > y)
  OBVIOUS
<1>. HIDE DEF up, down
<1>4. Compares(S, up)
  BY <1>2, <1>3 DEF Compares
<1>5. Compares(S, down)
  BY <1>2, <1>3 DEF Compares
<1>6. \E m \in S : \A x \in S : x # m => <<x, m>> \in up
  BY <1>1, <1>4, LastIs
<1>7. \E m \in S : \A x \in S : x # m => <<x, m>> \in down
  BY <1>1, <1>5, LastIs
<1>8. \E m \in S : \A x \in S : x <= m
  <2>1. PICK m \in S : \A x \in S : x # m => <<x, m>> \in up
    BY <1>6
  <2>2. ASSUME NEW x \in S PROVE x <= m
    <3>1. x \in Int /\ m \in Int
      BY <1>2
    <3>2. x = m \/ x < m
      BY <1>3, <2>1
    <3>. QED BY ONLY <3>1, <3>2
  <2>. QED BY <2>2
<1>9. \E m \in S : \A x \in S : m <= x
  <2>1. PICK m \in S : \A x \in S : x # m => <<x, m>> \in down
    BY <1>7
  <2>2. ASSUME NEW x \in S PROVE m <= x
    <3>1. x \in Int /\ m \in Int
      BY <1>2
    <3>2. x = m \/ m < x
      BY <1>3, <2>1
    <3>. QED BY ONLY <3>1, <3>2
  <2>. QED BY <2>2
<1>. QED BY <1>8, <1>9

\* Numbers up to n that grow, n of them, are all of them.
LEMMA GrowingAreAll ==
  ASSUME NEW n \in Nat, NEW r \in [1 .. n -> 1 .. n],
         \A i, j \in 1 .. n : i < j => r[i] < r[j]
  PROVE  \A k \in 1 .. n : r[k] = k
<1> DEFINE low == {k \in 1 .. n : r[k] < k}
           high == {k \in 1 .. n : r[k] > k}
<1>1. \A k \in 1 .. n : r[k] \in 1 .. n
  OBVIOUS
<1>2. low = {}
  <2>. SUFFICES ASSUME low # {} PROVE FALSE
    OBVIOUS
  <2>1. PICK m \in low : \A x \in low : m <= x
    <3>1. low \in SUBSET (1 .. n)
      OBVIOUS
    <3>. HIDE DEF low
    <3>. QED BY <3>1, FirstAndLast
  <2>2. m \in 1 .. n /\ r[m] < m
    OBVIOUS
  <2>3. m - 1 \in 1 .. n /\ m - 1 < m
    BY <1>1, <2>2
  <2>4. m - 1 \notin low
    <3>. HIDE DEF low
    <3>. QED BY <2>1, <2>2, <2>3
  <2>5. r[m - 1] >= m - 1
    BY <1>1, <2>3, <2>4
  <2>. QED BY <1>1, <2>2, <2>3, <2>5
<1>3. high = {}
  <2>. SUFFICES ASSUME high # {} PROVE FALSE
    OBVIOUS
  <2>1. PICK m \in high : \A x \in high : x <= m
    <3>1. high \in SUBSET (1 .. n)
      OBVIOUS
    <3>. HIDE DEF high
    <3>. QED BY <3>1, FirstAndLast
  <2>2. m \in 1 .. n /\ r[m] > m
    OBVIOUS
  <2>3. m + 1 \in 1 .. n /\ m < m + 1
    BY <1>1, <2>2
  <2>4. m + 1 \notin high
    <3>. HIDE DEF high
    <3>. QED BY <2>1, <2>2, <2>3
  <2>5. r[m + 1] <= m + 1
    BY <1>1, <2>3, <2>4
  <2>. QED BY <1>1, <2>2, <2>3, <2>5
<1>. QED BY <1>1, <1>2, <1>3

VectorRow == [index : Nat \union {Unplaced}, vector : Nat]

\* Every vector of an answer has its place, and no two have the same.
LEMMA PlacesAre ==
  ASSUME NEW data \in Seq(VectorRow)
  PROVE  LET n == Len(data)
             places == Placed(data)
         IN  /\ places \in [1 .. n -> 1 .. n]
             /\ \A i \in 1 .. n : \E k \in 1 .. n : places[k] = i
             /\ \A i, j \in 1 .. n :
                   i < j => PlaceOf(data, places[i]) <= PlaceOf(data, places[j])
<1> DEFINE n == Len(data)
           places == Placed(data)
           at(i) == PlaceOf(data, i)
           pairs == {pair \in (1 .. n) \X (1 .. n) :
                        LET before == at(pair[1])
                            after  == at(pair[2])
                        IN  before < after \/ (before = after /\ pair[1] < pair[2])}
<1>1. n \in Nat /\ DOMAIN data = 1 .. n
  OBVIOUS
<1>2. \A i \in 1 .. n : at(i) \in Int
  <2>1. \A i \in 1 .. n : data[i] \in VectorRow /\ i \in Int
    OBVIOUS
  <2>. QED BY <2>1 DEF PlaceOf, VectorRow
<1>3. IsFiniteSet(1 .. n) /\ Cardinality(1 .. n) = n
  BY <1>1, FS_Interval, SMTT(60)
<1>4. places = Sorted(1 .. n, pairs)
  BY <1>1 DEF Placed
<1>. HIDE DEF n, places, at
<1>5. \A i, j \in 1 .. n :
         <<i, j>> \in pairs <=> at(i) < at(j) \/ (at(i) = at(j) /\ i < j)
  <2>1. ASSUME NEW i \in 1 .. n, NEW j \in 1 .. n
        PROVE  <<i, j>> \in pairs <=> at(i) < at(j) \/ (at(i) = at(j) /\ i < j)
    <3>1. <<i, j>> \in (1 .. n) \X (1 .. n) /\ <<i, j>>[1] = i /\ <<i, j>>[2] = j
      OBVIOUS
    <3>. QED BY <3>1
  <2>. QED BY <2>1
<1>. HIDE DEF pairs
<1>6. Compares(1 .. n, pairs)
  <2>1. \A x \in 1 .. n : <<x, x>> \notin pairs
    BY <1>2, <1>5
  <2>2. \A x, y \in 1 .. n : x # y => <<x, y>> \in pairs \/ <<y, x>> \in pairs
    BY <1>2, <1>5
  <2>3. ASSUME NEW x \in 1 .. n, NEW y \in 1 .. n, NEW z \in 1 .. n,
               <<x, y>> \in pairs, <<y, z>> \in pairs
        PROVE  <<x, z>> \in pairs
    BY <1>2, <1>5, <2>3
  <2>. QED BY <2>1, <2>2, <2>3 DEF Compares
<1>7. /\ InOrder(places, 1 .. n, pairs)
      /\ \A x \in 1 .. n : \E i \in 1 .. n : places[i] = x
  <2>1. /\ InOrder(Sorted(1 .. n, pairs), 1 .. n, pairs)
        /\ \A x \in 1 .. n :
              \E i \in 1 .. Cardinality(1 .. n) : Sorted(1 .. n, pairs)[i] = x
    <3> DEFINE set == 1 .. n
    <3>1. IsFiniteSet(set) /\ Compares(set, pairs)
      BY <1>3, <1>6
    <3>. HIDE DEF set
    <3>2. /\ InOrder(Sorted(set, pairs), set, pairs)
          /\ \A x \in set : \E i \in 1 .. Cardinality(set) : Sorted(set, pairs)[i] = x
      BY ONLY <3>1, SortedIs
    <3>. QED BY ONLY <3>2 DEF set
  <2>. QED BY <1>3, <1>4, <2>1
<1>8. /\ places \in [1 .. n -> 1 .. n]
      /\ \A i, j \in 1 .. n : i < j => <<places[i], places[j]>> \in pairs
  BY <1>3, <1>7 DEF InOrder
<1>9. \A i, j \in 1 .. n : i < j => at(places[i]) <= at(places[j])
  <2>1. ASSUME NEW i \in 1 .. n, NEW j \in 1 .. n, i < j
        PROVE  at(places[i]) <= at(places[j])
    <3>1. places[i] \in 1 .. n /\ places[j] \in 1 .. n /\ <<places[i], places[j]>> \in pairs
      BY <1>8, <2>1
    <3>. QED BY <1>2, <1>5, <3>1
  <2>. QED BY <2>1
<1>. QED BY <1>7, <1>8, <1>9 DEF n, places, at

\* What is told has one vector for each that came in.
LEMMA OrderedIs ==
  ASSUME NEW data \in Seq(VectorRow)
  PROVE  Ordered(data) = [k \in 1 .. Len(data) |-> data[Placed(data)[k]].vector]
BY PlacesAre DEF Ordered

\* Vectors that were placed, one for each input, are told in the order of these.
LEMMA HonestOrder ==
  ASSUME NEW data \in Seq(VectorRow), Honest(data), Len(data) = Inputs
  PROVE  Ordered(data) = [k \in 1 .. Inputs |-> k]
<1> DEFINE n == Inputs
           places == Placed(data)
           r == Ordered(data)
<1>1. n \in Nat /\ DOMAIN data = 1 .. n
  OBVIOUS
<1>2. r = [k \in 1 .. n |-> data[places[k]].vector]
  BY OrderedIs
<1>3. /\ places \in [1 .. n -> 1 .. n]
      /\ \A i \in 1 .. n : \E k \in 1 .. n : places[k] = i
      /\ \A i, j \in 1 .. n : i < j => PlaceOf(data, places[i]) <= PlaceOf(data, places[j])
  BY PlacesAre
<1>4. \A i \in 1 .. n : /\ data[i].vector \in 1 .. n
                        /\ data[i].vector = PlaceOf(data, i) + 1
                        /\ PlaceOf(data, i) \in Nat
  <2>1. ASSUME NEW i \in 1 .. n
        PROVE  /\ data[i].vector \in 1 .. n
               /\ data[i].vector = PlaceOf(data, i) + 1 /\ PlaceOf(data, i) \in Nat
    <3>1. data[i] \in VectorRow
      BY <1>1
    <3>. QED BY <1>1, <3>1 DEF Honest, VectorRow, PlaceOf
  <2>. QED BY <2>1
<1>5. \A x \in 1 .. n : \E i \in 1 .. n : data[i].vector = x
  BY <1>1 DEF Honest
<1>. HIDE DEF n, places, r
<1>6. r \in [1 .. n -> 1 .. n]
  BY <1>2, <1>3, <1>4
<1>7. \A x \in 1 .. n : \E k \in 1 .. n : r[k] = x
  BY <1>2, <1>3, <1>5
<1>8. r \in Injection(1 .. n, 1 .. n)
  <2>1. r \in Surjection(1 .. n, 1 .. n)
    BY <1>6, <1>7 DEF Surjection
  <2>2. IsFiniteSet(1 .. n)
    BY <1>1, FS_Interval
  <2>. QED BY <2>1, <2>2, FS_SurjSameCardinalityImpliesInj
<1>9. \A i, j \in 1 .. n : r[i] = r[j] => i = j
  BY <1>8 DEF Injection, IsInjective
<1>10. \A i, j \in 1 .. n : i < j => r[i] < r[j]
  <2>1. ASSUME NEW i \in 1 .. n, NEW j \in 1 .. n, i < j PROVE r[i] < r[j]
    <3>1. r[i] # r[j]
      BY <1>1, <1>9, <2>1
    <3>2. r[i] = PlaceOf(data, places[i]) + 1 /\ r[j] = PlaceOf(data, places[j]) + 1
      BY <1>2, <1>3, <1>4
    <3>3. PlaceOf(data, places[i]) \in Nat /\ PlaceOf(data, places[j]) \in Nat
      BY <1>3, <1>4
    <3>4. PlaceOf(data, places[i]) <= PlaceOf(data, places[j])
      BY <1>3, <2>1
    <3>. QED BY <3>1, <3>2, <3>3, <3>4
  <2>. QED BY <2>1
<1>11. \A k \in 1 .. n : r[k] = k
  BY <1>1, <1>6, <1>10, GrowingAreAll
<1>. QED BY <1>6, <1>11 DEF n, r

\* What is told of an answer that was not refused.
LEMMA AnswersAre ==
  ASSUME NEW payload \in Payloads, NEW dimensions,
         parse_response(payload, Inputs, dimensions) # <<>>
  PROVE  LET vectors == parse_response(payload, Inputs, dimensions)
         IN  /\ Len(vectors) = Inputs
             /\ Honest(payload.data) => vectors = [k \in 1 .. Inputs |-> k]
<1> DEFINE data == payload.data
           vectors == parse_response(payload, Inputs, dimensions)
<1>1. data \in Seq(VectorRow)
  BY PayloadsAssumption DEF VectorRow
<1>2. Len(data) = Inputs /\ vectors = Ordered(data)
  BY DEF parse_response
<1>. HIDE DEF data, vectors
<1>3. vectors = [k \in 1 .. Inputs |-> data[Placed(data)[k]].vector] /\ Inputs \in Nat
  BY <1>1, <1>2, OrderedIs
<1>4. Len(vectors) = Inputs
  BY <1>3
<1>5. Honest(data) => vectors = [k \in 1 .. Inputs |-> k]
  BY <1>1, <1>2, HonestOrder
<1>. QED BY <1>4, <1>5 DEF data, vectors

LEMMA AddUpStep ==
  EmbeddingsAddUp /\ [AdministrationNext]_administrationVars => EmbeddingsAddUp'
<1>. SUFFICES ASSUME EmbeddingsAddUp, [AdministrationNext]_administrationVars
              PROVE  EmbeddingsAddUp'
  OBVIOUS
<1>1. CASE UNCHANGED call
  BY <1>1 DEF EmbeddingsAddUp
<1>2. ASSUME NEW p \in Payloads, NEW logged \in BOOLEAN, Answer(p, logged)
      PROVE  EmbeddingsAddUp'
  <2> DEFINE vectors == parse_response(p, Inputs, call.dimensions)
             row == IF logged THEN booked(call.target) ELSE NoTarget
  <2>1. call' = [stage |-> "answered", payload |-> p, vectors |-> vectors,
                 sent |-> call.target, logged |-> logged, row |-> row,
                 success |-> vectors # <<>>]
    BY <1>2 DEF Answer
  <2>2. vectors # <<>> =>
            /\ Len(vectors) = Inputs
            /\ Honest(p.data) => vectors = [k \in 1 .. Inputs |-> k]
    BY AnswersAre
  <2>3. logged => row = call.target
    BY DEF booked
  <2>. HIDE DEF vectors, row
  <2>. QED BY <2>1, <2>2, <2>3 DEF EmbeddingsAddUp
<1>3. CASE Kickstart
  BY <1>3 DEF Kickstart, EmbeddingsAddUp, NoCall
<1>4. ASSUME NEW model \in Asked, NEW dimensions \in BOOLEAN, Embed(model, dimensions)
      PROVE  EmbeddingsAddUp'
  BY <1>4 DEF Embed, EmbeddingsAddUp
<1>5. CASE EmbeddingDropped
  BY <1>5 DEF EmbeddingDropped, EmbeddingsAddUp, NoCall
<1>6. ASSUME NEW c \in DOMAIN connections, NEW p \in ConnectionPatches, PatchConnection(c, p)
      PROVE  EmbeddingsAddUp'
  BY <1>1, <1>6 DEF PatchConnection
<1>7. ASSUME NEW c \in DOMAIN combos, NEW p \in ComboPatches, PatchCombo(c, p)
      PROVE  EmbeddingsAddUp'
  BY <1>1, <1>7 DEF PatchCombo
<1>8. CASE RestartService
  BY <1>1, <1>8 DEF RestartService
<1>9. CASE UNCHANGED administrationVars
  BY <1>1, <1>9 DEF administrationVars
<1>. QED BY <1>2, <1>3, <1>4, <1>5, <1>6, <1>7, <1>8, <1>9 DEF AdministrationNext

\* An embedding that succeeds has one vector for each input; if the upstream placed
\* one for each, they are told in the order of the inputs, in whatever order they
\* came; and its row names the connection whose credential was sent, whatever was
\* edited since.  For every number of inputs.  (embeddings.rs dispatch,
\* parse_response, record)
THEOREM EmbeddingsAlwaysAddUp == AdministrationSpec => []EmbeddingsAddUp
<1>1. AdministrationInit => EmbeddingsAddUp
  BY DEF AdministrationInit, EmbeddingsAddUp, NoCall
<1>. QED BY <1>1, AddUpStep, PTL DEF AdministrationSpec

-----------------------------------------------------------------------------
(* What is listed is routed.                                               *)

\* An entry of the registry is found under its id.
LEMMA FoundById ==
  ASSUME NEW i \in DOMAIN Registry
  PROVE  get(Registry[i].id) = Registry[i]
<1> DEFINE id == Registry[i].id
           Named(name) == {j \in DOMAIN Registry : Registry[j].id = name}
           Aliased(name) == {j \in DOMAIN Registry : Registry[j].alias = name}
           names == UNION {{Registry[j].id, Registry[j].alias} : j \in DOMAIN Registry}
           found(name) == IF Named(name) # {} THEN Named(name) ELSE Aliased(name)
<1>1. DOMAIN Registry \subseteq Nat /\ id # Unnamed
  <2>1. Registry[i] \in ProviderEntry
    BY RegistryAssumption
  <2>2. id # Unnamed
    BY <2>1 DEF ProviderEntry
  <2>3. DOMAIN Registry \subseteq Nat
    BY RegistryAssumption
  <2>. QED BY <2>2, <2>3
<1>2. by_id = [name \in names \ {Unnamed} |-> Min(found(name))]
  BY DEF by_id
<1>3. id \in names \ {Unnamed}
  BY <1>1
<1>4. Named(id) = {i}
  BY RegistryAssumption
<1>5. found(id) = {i}
  BY <1>4
<1>. HIDE DEF Named, Aliased, names, found
<1>6. by_id[id] = Min({i}) /\ id \in DOMAIN by_id
  BY <1>2, <1>3, <1>5
<1>7. Min({i}) = i
  BY <1>1 DEF Min
<1>. QED BY <1>6, <1>7 DEF get

\* A model under its provider's id is routed to that provider, if it runs.
LEMMA ModelsAreRouted ==
  ASSUME NEW i \in ListedEntries, NEW model \in Registry[i].models, NEW isGrok \in BOOLEAN
  PROVE  resolve(<<Registry[i].id>> \o model, isGrok, combos, Available)
             = <<[backend |-> Registry[i].id, model |-> model]>>
<1> DEFINE id == Registry[i].id
           name == <<id>> \o model
<1>1. i \in DOMAIN Registry /\ id \in Available
  BY DEF ListedEntries
<1>2. id \in STRING /\ id # Unnamed /\ model \in Seq(STRING) /\ model # <<>>
  <2>1. Registry[i] \in ProviderEntry
    BY <1>1, RegistryAssumption
  <2>. QED BY <2>1 DEF ProviderEntry
<1>3. Len(name) >= 2 /\ Head(name) = id /\ Tail(name) = model
  BY <1>2
<1>4. canonical_id(id) = id
  BY <1>1, FoundById DEF canonical_id
<1>. HIDE DEF id, name
<1>5. DirectProvider(name, Available) = id
  BY <1>1, <1>2, <1>3, <1>4 DEF DirectProvider
<1>6. resolve(name, isGrok, combos, Available) = <<[backend |-> id, model |-> model]>>
  BY <1>2, <1>3, <1>5 DEF resolve
<1>. QED BY <1>6 DEF id, name

\* The plan of a combo is what the dashboard shows of it as servable.
LEMMA PlanIsShown ==
  ASSUME NEW c PROVE plan_steps(combos[c].data, Available) = ServableEntries(c)
<1> DEFINE data == combos[c].data
           entries == parse_combo_rich(data)
           steps == [i \in DOMAIN entries |->
                        [backend |-> dispatch_backend(entries[i], Available),
                         model |-> entries[i].model]]
           shown == Shown(combos[c], Available)
           listed == [i \in DOMAIN shown |->
                         [backend |-> shown[i].backend, model |-> shown[i].entry.model]]
<1>1. plan_steps(data, Available) = Served(steps)
  BY DEF plan_steps
<1>2. ServableEntries(c) = Served(listed)
  BY DEF ServableEntries
<1>3. shown = [i \in DOMAIN entries |->
                  [entry |-> entries[i], backend |-> dispatch_backend(entries[i], Available)]]
  BY DEF Shown
<1>. HIDE DEF entries, shown
<1>4. listed = steps
  BY <1>3
<1>. HIDE DEF listed, steps
<1>. QED BY <1>1, <1>2, <1>4

\* No two combos have one name.
NamesApart == \A c, d \in DOMAIN combos : combos[c].name = combos[d].name => c = d

LEMMA CombosAreRouted ==
  ASSUME NamesApart, NEW c \in ListedCombos, NEW isGrok \in BOOLEAN
  PROVE  \/ DirectProvider(combos[c].name, Available) # Unnamed
         \/ ServableEntries(c) = <<>>
         \/ resolve(combos[c].name, isGrok, combos, Available) = ServableEntries(c)
<1>. SUFFICES ASSUME DirectProvider(combos[c].name, Available) = Unnamed,
                     ServableEntries(c) # <<>>
              PROVE  resolve(combos[c].name, isGrok, combos, Available) = ServableEntries(c)
  OBVIOUS
<1> DEFINE named == load_combos(combos, combos[c].name)
<1>1. named = {c}
  BY DEF load_combos, ListedCombos, NamesApart
<1>. HIDE DEF named
<1>2. (CHOOSE d \in named : TRUE) = c /\ named # {}
  BY <1>1
<1> DEFINE steps == IF named = {} THEN <<>>
                    ELSE plan_steps(combos[CHOOSE d \in named : TRUE].data, Available)
<1>3. steps = ServableEntries(c)
  BY <1>2, PlanIsShown
<1>. HIDE DEF steps
<1>. QED BY <1>3 DEF resolve, steps, named

\* An edit gives a combo no name that another one has.
LEMMA NamesStayApart ==
  NamesApart /\ [AdministrationNext]_administrationVars => NamesApart'
<1>. SUFFICES ASSUME NamesApart, [AdministrationNext]_administrationVars PROVE NamesApart'
  OBVIOUS
<1>1. CASE UNCHANGED combos
  BY <1>1 DEF NamesApart
<1>2. ASSUME NEW c \in DOMAIN combos, NEW p \in ComboPatches, PatchCombo(c, p)
      PROVE  NamesApart'
  <2> DEFINE row == update_combo_meta(combos[c], p)
  <2>1. combos' = [combos EXCEPT ![c] = row] /\ ~NameTaken(combos, c, p)
    BY <1>2 DEF PatchCombo
  <2>2. row.name = IF "name" \in DOMAIN p THEN p.name ELSE combos[c].name
    BY DEF update_combo_meta, Given
  <2>. HIDE DEF row
  <2>3. \A d \in DOMAIN combos : d # c => row.name # combos[d].name
    BY <2>1, <2>2 DEF NameTaken, NamesApart
  <2>4. /\ DOMAIN combos' = DOMAIN combos /\ combos'[c] = row
        /\ \A d \in DOMAIN combos : d # c => combos'[d] = combos[d]
    BY <2>1
  <2>. QED BY <2>3, <2>4 DEF NamesApart
<1>3. CASE UNCHANGED administrationVars
  BY <1>1, <1>3 DEF administrationVars
<1>4. ASSUME NEW c \in DOMAIN connections, NEW p \in ConnectionPatches, PatchConnection(c, p)
      PROVE  NamesApart'
  BY <1>1, <1>4 DEF PatchConnection
<1>5. CASE RestartService \/ Kickstart \/ EmbeddingDropped
  BY <1>1, <1>5 DEF RestartService, Kickstart, EmbeddingDropped
<1>6. ASSUME NEW model \in Asked, NEW dimensions \in BOOLEAN, Embed(model, dimensions)
      PROVE  NamesApart'
  BY <1>1, <1>6 DEF Embed
<1>7. ASSUME NEW p \in Payloads, NEW logged \in BOOLEAN, Answer(p, logged)
      PROVE  NamesApart'
  BY <1>1, <1>7 DEF Answer
<1>. QED BY <1>2, <1>3, <1>4, <1>5, <1>6, <1>7 DEF AdministrationNext

\* What /v1/models lists is what is routed, for every registry, table and set of
\* combos, and after any edits: a provider's model goes to its own backend under
\* its own name, and a combo to all the entries that the dashboard shows as
\* servable, in that order, unless its name is that of a running provider's
\* model.  (lib.rs list_models, admin.rs combos, routing.rs resolve)
THEOREM ListedIsRouted == AdministrationSpec => []ListedModelsAreRouted
<1>1. AdministrationInit => NamesApart
  BY CombosAssumption DEF AdministrationInit, NamesApart
<1>2. NamesApart => ListedModelsAreRouted
  BY ModelsAreRouted, CombosAreRouted DEF ListedModelsAreRouted
<1>. QED BY <1>1, <1>2, NamesStayApart, PTL DEF AdministrationSpec

=============================================================================
