----------------------- MODULE TokenController_proofs ------------------------
(***************************************************************************)
(* Proofs about TokenController, for any number of replicas, any keys and  *)
(* any times that satisfy TokenAssumption: the inductive invariant, that   *)
(* no expired token is in use, that a rotated key is in use in time and    *)
(* that no key of the user's is overwritten.                               *)
(***************************************************************************)
EXTENDS TokenController, TLAPS

USE DEF Tokens, Settling, Secrets, Copies, NoCopy

-----------------------------------------------------------------------------
(***************************************************************************)
(* Types                                                                   *)
(***************************************************************************)
\* Outdating the informers' copies keeps their type.
LEMMA OutdateCache ==
  ASSUME NEW f \in [Workers -> Copies]
  PROVE  /\ Outdate(f) \in [Workers -> Copies]
         /\ \A w \in Workers : ~Outdate(f)[w].fresh
BY DEF Outdate

\* Outdating what the passes have read keeps its type and its contents.
LEMMA OutdateMem ==
  ASSUME NEW f \in [Workers -> Copies \cup {NoCopy}]
  PROVE  /\ Outdate(f) \in [Workers -> Copies \cup {NoCopy}]
         /\ \A w \in Workers :
              /\ ~Outdate(f)[w].fresh
              /\ f[w] \in Copies => Outdate(f)[w] \in Copies /\ Outdate(f)[w].obj = f[w].obj
<1> SUFFICES ASSUME NEW w \in Workers
             PROVE  /\ Outdate(f)[w] \in Copies \cup {NoCopy}
                    /\ ~Outdate(f)[w].fresh
                    /\ f[w] \in Copies => Outdate(f)[w] \in Copies /\ Outdate(f)[w].obj = f[w].obj
  BY DEF Outdate
<1>1. CASE f[w] = NoCopy
  BY <1>1 DEF Outdate
<1>2. CASE f[w] \in Copies
  BY <1>2 DEF Outdate
<1> QED BY <1>1, <1>2

\* The types of what the faults and the users' actions count.
LEMMA Counted ==
  ASSUME TypeOK,
         \/ UNCHANGED faults
         \/ \E k \in FaultKinds : Fault(k),
         UNCHANGED edits \/ User
  PROVE  faults' \in Nat /\ edits' \in Nat
BY DEF TypeOK, Fault, User

\* A pass that fails leaves its replica in time: it is late by a back-off at most,
\* or has failed twice.
LEMMA FailRight ==
  ASSUME IInv, NEW w \in Workers, Fail(w), UNCHANGED <<secret, cache>>
  PROVE  /\ mem' \in [Workers -> Copies \cup {NoCopy}]
         /\ pc' \in [Workers -> {"idle", "authenticate", "update"}]
         /\ due' \in [Workers -> 0 .. RequeueTime \cup {Never}]
         /\ fails' \in [Workers -> 0 .. 2]
         /\ \A v \in Workers : pc'[v] # "idle" => mem'[v] \in Copies
         /\ CopiesRight'
         /\ OnTime'
<1> USE TokenAssumption DEF IInv, TypeOK
<1>1. PICK d \in 0 .. MaxBackoff : due' = [due EXCEPT ![w] = d]
  BY DEF Fail
<1>2. /\ mem' = [mem EXCEPT ![w] = NoCopy]
      /\ pc' = [pc EXCEPT ![w] = "idle"]
      /\ fails' = [fails EXCEPT ![w] = IF @ = 2 THEN 2 ELSE @ + 1]
  BY DEF Fail
<1>3. d \in 0 .. RequeueTime
  OBVIOUS
<1>4. /\ mem' \in [Workers -> Copies \cup {NoCopy}]
      /\ pc' \in [Workers -> {"idle", "authenticate", "update"}]
      /\ due' \in [Workers -> 0 .. RequeueTime \cup {Never}]
      /\ fails' \in [Workers -> 0 .. 2]
      /\ \A v \in Workers : pc'[v] # "idle" => mem'[v] \in Copies
  BY <1>1, <1>2, <1>3
<1>5. CopiesRight'
  BY <1>2 DEF CopiesRight
<1>6. OnTime'
  <2> SUFFICES ASSUME NEW v \in Workers, fails'[v] # 2
               PROVE  /\ due'[v] # Never
                      /\ secret.token # NoToken => secret.token.age + due'[v] <= Slack(v)'
                      /\ secret.token # NoToken /\ secret.token.key # secret.key =>
                           secret.since + due'[v] <= Slack(v)'
    BY DEF OnTime
  <2>1. CASE v # w
    BY <1>1, <1>2, <2>1 DEF OnTime, Slack
  <2>2. CASE v = w
    <3>1. fails[w] = 0 /\ fails'[w] = 1 /\ due'[w] = d
      BY <1>1, <1>2, <2>2
    <3>2. due[w] \in 0 .. RequeueTime
      BY <3>1 DEF OnTime
    <3>3. secret.token # NoToken => secret.token.age \in Nat
      OBVIOUS
    <3> QED BY <2>2, <3>1, <3>2, <3>3 DEF OnTime, Slack
  <2> QED BY <2>1, <2>2
<1> QED BY <1>4, <1>5, <1>6

-----------------------------------------------------------------------------
(***************************************************************************)
(* The inductive invariant                                                 *)
(***************************************************************************)
\* It holds initially: every replica has a pass due at once and no token.
LEMMA InitRight == Init => IInv
<1> SUFFICES ASSUME Init PROVE IInv
  OBVIOUS
<1> USE TokenAssumption DEF Init
<1>1. TypeOK
  <2>1. config \in [present : BOOLEAN, ref : BOOLEAN]
    OBVIOUS
  <2>2. secret \in Secrets
    OBVIOUS
  <2>3. cache \in [Workers -> Copies]
    BY <2>2
  <2>4. /\ valid \subseteq ApiKeys
        /\ mem \in [Workers -> Copies \cup {NoCopy}]
        /\ pc \in [Workers -> {"idle", "authenticate", "update"}]
        /\ due \in [Workers -> 0 .. RequeueTime \cup {Never}]
        /\ woken \in [Workers -> BOOLEAN]
        /\ fails \in [Workers -> 0 .. 2]
        /\ faults \in Nat /\ edits \in Nat
        /\ \A w \in Workers : pc[w] # "idle" => mem[w] \in Copies
    OBVIOUS
  <2> QED BY <2>1, <2>2, <2>3, <2>4 DEF TypeOK
<1>2. CopiesRight
  BY DEF CopiesRight
<1>3. OnTime
  BY DEF OnTime
<1> QED BY <1>1, <1>2, <1>3 DEF IInv

\* A pass that starts has a copy, fails, or finds nothing to renew.
LEMMA StartRight ==
  ASSUME IInv, NEW w \in Workers, Start(w)
  PROVE  IInv'
<1> USE TokenAssumption
<1>1. CASE config.present /\ config.ref
  <2> USE <1>1 DEF IInv
  <2>1. /\ mem' = [mem EXCEPT ![w] = cache[w]] /\ pc' = [pc EXCEPT ![w] = "authenticate"]
        /\ woken' = [woken EXCEPT ![w] = FALSE]
        /\ UNCHANGED <<config, secret, valid, cache, due, fails, faults, edits>>
    BY DEF Start, Fail
  <2>2. TypeOK'
    BY <2>1 DEF TypeOK
  <2>3. CopiesRight'
    BY <2>1 DEF TypeOK, CopiesRight
  <2>4. OnTime'
    BY <2>1 DEF OnTime, Slack
  <2> QED BY <2>2, <2>3, <2>4
<1>2. CASE config.present /\ ~config.ref
  <2>1. /\ Fail(w) /\ woken' = [woken EXCEPT ![w] = FALSE]
        /\ UNCHANGED <<config, secret, valid, cache, faults, edits>>
    BY <1>2 DEF Start
  <2>2. CopiesRight' /\ OnTime'
    BY <2>1, FailRight
  <2>3. TypeOK'
    BY <2>1, FailRight DEF TypeOK, IInv
  <2> QED BY <2>2, <2>3 DEF IInv
<1>3. CASE ~config.present
  <2> USE <1>3 DEF IInv
  <2>1. /\ due' = [due EXCEPT ![w] = Never] /\ fails' = [fails EXCEPT ![w] = 2]
        /\ woken' = [woken EXCEPT ![w] = FALSE]
        /\ UNCHANGED <<config, secret, valid, cache, mem, pc, faults, edits>>
    BY DEF Start
  <2>2. TypeOK'
    BY <2>1 DEF TypeOK
  <2>3. CopiesRight'
    BY <2>1 DEF CopiesRight
  <2>4. OnTime'
    BY <2>1 DEF OnTime, Slack, TypeOK
  <2> QED BY <2>2, <2>3, <2>4
<1>4. config.present \in BOOLEAN /\ config.ref \in BOOLEAN
  BY DEF IInv, TypeOK
<1> QED BY <1>1, <1>2, <1>3, <1>4

\* The token a pass has fetched is a new one, of the key it read.
LEMMA AuthenticateRight ==
  ASSUME IInv, NEW w \in Workers, Authenticate(w)
  PROVE  IInv'
<1> USE TokenAssumption
<1>1. UNCHANGED <<config, secret, valid, cache, woken, faults, edits>> /\ pc[w] = "authenticate"
  BY DEF Authenticate
<1>2. CASE mem[w].obj.key \in valid
  <2> DEFINE token == [key |-> mem[w].obj.key, age |-> 0]
  <2>1. /\ mem' = [mem EXCEPT ![w].obj.token = token]
        /\ pc' = [pc EXCEPT ![w] = "update"]
        /\ UNCHANGED <<due, fails>>
    BY <1>2 DEF Authenticate
  <2>2. mem[w] \in Copies
    BY <1>1 DEF IInv, TypeOK
  <2>3. /\ mem'[w] \in Copies /\ mem'[w].fresh = mem[w].fresh
        /\ mem'[w].obj.key = mem[w].obj.key /\ mem'[w].obj.since = mem[w].obj.since
        /\ mem'[w].obj.token = token
    <3>1. token \in Tokens
      BY <2>2
    <3>2. mem'[w] = [mem[w] EXCEPT !.obj = [mem[w].obj EXCEPT !.token = token]]
      BY <2>1 DEF IInv, TypeOK
    <3> QED BY <2>2, <3>1, <3>2
  <2>4. \A v \in Workers : v # w => mem'[v] = mem[v] /\ pc'[v] = pc[v]
    BY <2>1 DEF IInv, TypeOK
  <2>5. mem' \in [Workers -> Copies \cup {NoCopy}]
    <3>1. mem' = [mem EXCEPT ![w] = mem'[w]]
      BY <2>1 DEF IInv, TypeOK
    <3> QED BY <2>3, <3>1 DEF IInv, TypeOK
  <2>6. TypeOK'
    BY <1>1, <2>1, <2>3, <2>4, <2>5 DEF IInv, TypeOK
  <2>7. CopiesRight'
    <3> SUFFICES ASSUME NEW v \in Workers
                 PROVE  /\ cache[v].fresh => cache[v].obj = secret
                        /\ pc'[v] # "idle" /\ mem'[v].fresh =>
                             mem'[v].obj.key = secret.key /\ mem'[v].obj.since = secret.since
                        /\ pc'[v] = "update" =>
                             mem'[v].obj.token = [key |-> mem'[v].obj.key, age |-> 0]
      BY <1>1 DEF CopiesRight
    <3>1. CASE v = w
      BY <1>1, <2>3, <3>1 DEF IInv, CopiesRight
    <3>2. CASE v # w
      BY <2>4, <3>2 DEF IInv, CopiesRight
    <3> QED BY <3>1, <3>2
  <2>8. OnTime'
    BY <1>1, <2>1 DEF IInv, OnTime, Slack
  <2> QED BY <2>6, <2>7, <2>8 DEF IInv
<1>3. CASE mem[w].obj.key \notin valid
  <2>1. Fail(w)
    BY <1>3 DEF Authenticate
  <2>2. CopiesRight' /\ OnTime'
    BY <1>1, <2>1, FailRight
  <2>3. TypeOK'
    BY <1>1, <2>1, FailRight DEF TypeOK, IInv
  <2> QED BY <2>2, <2>3 DEF IInv
<1> QED BY <1>2, <1>3

\* So does a pass whose call fails.
LEMMA FaultRight ==
  ASSUME IInv, NEW w \in Workers, AuthenticateFails(w) \/ UpdateFails(w)
  PROVE  IInv'
<1>1. /\ Fail(w) /\ Fault("error")
      /\ UNCHANGED <<config, secret, valid, cache, woken, edits>>
  BY DEF AuthenticateFails, UpdateFails
<1>2. CopiesRight' /\ OnTime'
  BY <1>1, FailRight
<1>3. faults' \in Nat
  BY <1>1 DEF Fault, IInv, TypeOK
<1>4. TypeOK'
  BY <1>1, <1>3, FailRight DEF TypeOK, IInv
<1> QED BY <1>2, <1>4 DEF IInv

\* A pass that stores what it has stores a new token and the key that is there.
LEMMA StoreKeeps ==
  ASSUME IInv, NEW w \in Workers, pc[w] = "update", mem[w].fresh, Store(w)
  PROVE  /\ secret' \in Secrets
         /\ secret'.key = secret.key
         /\ secret'.since = secret.since
         /\ secret'.token = [key |-> secret.key, age |-> 0]
<1>1. mem[w] \in Copies
  BY DEF IInv, TypeOK
<1> QED BY <1>1 DEF Store, IInv, CopiesRight

\* After that every replica is in time.
LEMMA UpdateRight ==
  ASSUME IInv, NEW w \in Workers, Update(w)
  PROVE  IInv'
<1> USE TokenAssumption
<1>1. UNCHANGED <<config, valid, woken, faults, edits>> /\ pc[w] = "update"
  BY DEF Update
<1>2. CASE mem[w].fresh
  <2>1. Store(w)
    BY <1>2 DEF Update
  <2>2. /\ secret' \in Secrets
        /\ secret'.key = secret.key
        /\ secret'.token = [key |-> secret.key, age |-> 0]
    BY <1>1, <1>2, <2>1, StoreKeeps
  <2>3. cache' \in [Workers -> Copies] /\ \A v \in Workers : ~cache'[v].fresh
    BY <2>1, OutdateCache DEF Store, IInv, TypeOK
  <2>4. /\ mem' \in [Workers -> Copies \cup {NoCopy}]
        /\ \A v \in Workers : ~mem'[v].fresh
        /\ \A v \in Workers : v # w /\ mem[v] \in Copies =>
             mem'[v] \in Copies /\ mem'[v].obj = mem[v].obj
    BY <2>1, OutdateMem DEF Store, IInv, TypeOK
  <2>5. /\ pc' = [pc EXCEPT ![w] = "idle"] /\ fails' = [fails EXCEPT ![w] = 0]
        /\ due' = [due EXCEPT ![w] = RequeueTime]
    BY <2>1 DEF Store, NextRenewal
  <2>6. TypeOK'
    BY <1>1, <2>2, <2>3, <2>4, <2>5 DEF IInv, TypeOK
  <2>7. CopiesRight'
    BY <2>3, <2>4, <2>5 DEF CopiesRight, IInv, TypeOK
  <2>8. OnTime'
    <3> SUFFICES ASSUME NEW v \in Workers, fails'[v] # 2
                 PROVE  due'[v] # Never /\ due'[v] <= Slack(v)'
      BY <2>2, <2>6 DEF OnTime, TypeOK
    <3>1. CASE v = w
      BY <2>5, <3>1 DEF IInv, TypeOK, Slack
    <3>2. CASE v # w
      <4>1. due'[v] = due[v] /\ fails'[v] = fails[v]
        BY <2>5, <3>2 DEF IInv, TypeOK
      <4>2. due[v] # Never /\ due[v] \in 0 .. RequeueTime \cup {Never}
        BY <4>1 DEF IInv, OnTime, TypeOK
      <4> QED BY <4>1, <4>2 DEF Slack
    <3> QED BY <3>1, <3>2
  <2> QED BY <2>6, <2>7, <2>8 DEF IInv
<1>3. CASE ~mem[w].fresh
  <2>1. Fail(w) /\ UNCHANGED <<secret, cache>>
    BY <1>3 DEF Update
  <2>2. CopiesRight' /\ OnTime'
    BY <2>1, FailRight
  <2>3. TypeOK'
    BY <1>1, <2>1, FailRight DEF TypeOK, IInv
  <2> QED BY <2>2, <2>3 DEF IInv
<1> QED BY <1>2, <1>3

\* A copy that catches up is right.
LEMMA SyncRight ==
  ASSUME IInv, NEW w \in Workers, SyncCache(w)
  PROVE  IInv'
<1>1. TypeOK'
  BY DEF IInv, TypeOK, SyncCache
<1>2. CopiesRight'
  BY DEF IInv, TypeOK, CopiesRight, SyncCache
<1>3. OnTime'
  BY DEF IInv, OnTime, Slack, SyncCache
<1> QED BY <1>1, <1>2, <1>3 DEF IInv

\* A replica that is started again is early, not late.
LEMMA CrashRight ==
  ASSUME IInv, NEW w \in Workers, Crash(w)
  PROVE  IInv'
<1> USE TokenAssumption
<1>1. /\ pc' = [pc EXCEPT ![w] = "idle"] /\ mem' = [mem EXCEPT ![w] = NoCopy]
      /\ cache' = [cache EXCEPT ![w] = [obj |-> secret, fresh |-> TRUE]]
      /\ due' = [due EXCEPT ![w] = 0] /\ woken' = [woken EXCEPT ![w] = FALSE]
      /\ UNCHANGED <<config, secret, valid, fails, edits>> /\ faults' \in Nat
  BY DEF Crash, Fault, IInv, TypeOK
<1>2. TypeOK'
  BY <1>1 DEF IInv, TypeOK
<1>3. CopiesRight'
  BY <1>1 DEF IInv, TypeOK, CopiesRight
<1>4. OnTime'
  <2> SUFFICES ASSUME NEW v \in Workers, fails[v] # 2
               PROVE  /\ due'[v] # Never
                      /\ secret.token # NoToken => secret.token.age + due'[v] <= Slack(v)
                      /\ secret.token # NoToken /\ secret.token.key # secret.key =>
                           secret.since + due'[v] <= Slack(v)
    BY <1>1 DEF OnTime, Slack
  <2>1. /\ due[v] # Never
        /\ secret.token # NoToken => secret.token.age + due[v] <= Slack(v)
        /\ secret.token # NoToken /\ secret.token.key # secret.key =>
             secret.since + due[v] <= Slack(v)
    BY DEF IInv, OnTime
  <2>2. due[v] \in 0 .. RequeueTime
    BY <2>1 DEF IInv, TypeOK
  <2>3. Slack(v) \in Nat
    BY DEF Slack
  <2>4. secret.since \in Nat /\ (secret.token # NoToken => secret.token.age \in Nat)
    BY DEF IInv, TypeOK
  <2>5. due'[v] = 0 \/ due'[v] = due[v]
    BY <1>1 DEF IInv, TypeOK
  <2> QED BY <2>1, <2>2, <2>3, <2>4, <2>5
<1> QED BY <1>2, <1>3, <1>4 DEF IInv

\* A tick brings the token as much nearer to its end as it brings the next pass.
LEMMA TickRight ==
  ASSUME IInv, Tick
  PROVE  IInv'
<1> USE TokenAssumption
<1>1. /\ \A w \in Workers : pc[w] = "idle" /\ due[w] # 0 /\ cache[w].fresh
      /\ secret' = Aged(secret)
      /\ cache' = [w \in Workers |-> [obj |-> secret', fresh |-> TRUE]]
      /\ due' = [w \in Workers |-> IF due[w] = Never THEN Never ELSE due[w] - 1]
      /\ UNCHANGED <<config, valid, mem, pc, woken, fails, faults, edits>>
  BY DEF Tick
<1>2. secret \in Secrets
  BY DEF IInv, TypeOK
<1>3. /\ secret'.key = secret.key
      /\ secret'.since = Older(secret.since, Settling + 1)
      /\ secret.token = NoToken => secret'.token = NoToken
      /\ secret.token # NoToken =>
           /\ secret'.token = [secret.token EXCEPT !.age = Older(@, Lifetime)]
           /\ secret.token \in Tokens
      /\ secret' = [key |-> secret'.key, token |-> secret'.token, since |-> secret'.since]
  <2>1. secret' = [key |-> secret.key, token |-> AgedToken(secret.token),
                   since |-> Older(secret.since, Settling + 1)]
    BY <1>1, <1>2 DEF Aged
  <2>2. /\ secret'.key = secret.key /\ secret'.token = AgedToken(secret.token)
        /\ secret'.since = Older(secret.since, Settling + 1)
    BY <2>1
  <2>3. secret' = [key |-> secret'.key, token |-> secret'.token, since |-> secret'.since]
    BY <2>1, <2>2
  <2>4. secret.token \in Tokens \cup {NoToken}
    BY <1>2
  <2> QED BY <2>2, <2>3, <2>4 DEF AgedToken
<1>4. secret'.since \in 0 .. Settling + 1 /\ secret'.since <= secret.since + 1
  BY <1>2, <1>3 DEF Older
<1>5. secret.token # NoToken =>
        /\ secret'.token \in Tokens /\ secret'.token.age <= secret.token.age + 1
        /\ secret'.token.key = secret.token.key /\ secret'.token # NoToken
  BY <1>3 DEF Older
<1>6. secret' \in Secrets
  <2>1. secret'.token \in Tokens \cup {NoToken}
    BY <1>3, <1>5
  <2> QED BY <1>2, <1>3, <1>4, <2>1
<1>7. ASSUME NEW w \in Workers PROVE due'[w] \in 0 .. RequeueTime \cup {Never}
  <2>1. due[w] \in 0 .. RequeueTime \cup {Never} /\ due[w] # 0
    BY <1>1 DEF IInv, TypeOK
  <2>2. due'[w] = IF due[w] = Never THEN Never ELSE due[w] - 1
    BY <1>1
  <2>3. CASE due[w] = Never
    BY <2>2, <2>3
  <2>4. CASE due[w] \in 1 .. RequeueTime
    BY <2>2, <2>4
  <2> QED BY <2>1, <2>3, <2>4
<1>8. TypeOK'
  BY <1>1, <1>6, <1>7 DEF IInv, TypeOK
<1>9. CopiesRight'
  BY <1>1 DEF CopiesRight
<1>10. OnTime'
  <2> SUFFICES ASSUME NEW v \in Workers, fails[v] # 2
               PROVE  /\ due'[v] # Never
                      /\ secret'.token # NoToken => secret'.token.age + due'[v] <= Slack(v)
                      /\ secret'.token # NoToken /\ secret'.token.key # secret'.key =>
                           secret'.since + due'[v] <= Slack(v)
    BY <1>1 DEF OnTime, Slack
  <2>1. /\ due[v] # Never
        /\ secret.token # NoToken => secret.token.age + due[v] <= Slack(v)
        /\ secret.token # NoToken /\ secret.token.key # secret.key =>
             secret.since + due[v] <= Slack(v)
    BY DEF IInv, OnTime
  <2>2. due[v] \in 1 .. RequeueTime /\ due'[v] = due[v] - 1
    BY <1>1, <2>1 DEF IInv, TypeOK
  <2>3. due'[v] # Never /\ Slack(v) \in Nat
    BY <2>2 DEF Slack
  <2>4. secret.since \in Nat /\ (secret.token # NoToken => secret.token.age \in Nat)
    BY <1>2
  <2>5. secret'.since \in Nat /\ (secret.token # NoToken => secret'.token.age \in Nat)
    BY <1>4, <1>5
  <2>6. secret'.token # NoToken => secret'.token.age + due'[v] <= Slack(v)
    BY <1>3, <1>5, <2>1, <2>2, <2>3, <2>4, <2>5
  <2>7. secret'.token # NoToken /\ secret'.token.key # secret'.key =>
          secret'.since + due'[v] <= Slack(v)
    BY <1>3, <1>4, <1>5, <2>1, <2>2, <2>3, <2>4, <2>5
  <2> QED BY <2>3, <2>6, <2>7
<1> QED BY <1>8, <1>9, <1>10 DEF IInv

\* The user rotates a key: no copy is the latest one any more, and the next pass of a
\* replica is due in time for the new key.
LEMMA RotateRight ==
  ASSUME IInv, UserRotates
  PROVE  IInv'
<1> USE TokenAssumption
<1>1. PICK k \in ApiKeys : secret' = [secret EXCEPT !.key = k, !.since = 0]
  BY DEF UserRotates
<1>2. /\ cache' = Outdate(cache) /\ mem' = Outdate(mem) /\ edits' \in Nat
      /\ UNCHANGED <<config, valid, pc, due, woken, fails, faults>>
  BY DEF UserRotates, User, IInv, TypeOK
<1>3. secret' \in Secrets /\ secret'.token = secret.token /\ secret'.since = 0
  <2>1. secret \in Secrets
    BY DEF IInv, TypeOK
  <2>2. secret' = [key |-> k, token |-> secret.token, since |-> 0]
    BY <1>1, <2>1
  <2>3. secret.token \in Tokens \cup {NoToken} /\ 0 \in 0 .. Settling + 1
    BY <2>1
  <2>4. secret'.key = k /\ secret'.token = secret.token /\ secret'.since = 0
    BY <2>2
  <2> HIDE DEF Tokens, Settling
  <2> QED BY <2>2, <2>3, <2>4
<1>4. cache' \in [Workers -> Copies] /\ \A v \in Workers : ~cache'[v].fresh
  BY <1>2, OutdateCache DEF IInv, TypeOK
<1>5. /\ mem' \in [Workers -> Copies \cup {NoCopy}]
      /\ \A v \in Workers : ~mem'[v].fresh
      /\ \A v \in Workers : mem[v] \in Copies =>
           mem'[v] \in Copies /\ mem'[v].obj = mem[v].obj
  BY <1>2, OutdateMem DEF IInv, TypeOK
<1>6. TypeOK'
  BY <1>2, <1>3, <1>4, <1>5 DEF IInv, TypeOK
<1>7. CopiesRight'
  BY <1>2, <1>4, <1>5 DEF IInv, TypeOK, CopiesRight
<1>8. OnTime'
  <2> SUFFICES ASSUME NEW v \in Workers, fails[v] # 2
               PROVE  /\ due[v] # Never
                      /\ secret.token # NoToken => secret.token.age + due[v] <= Slack(v)
                      /\ due[v] <= Slack(v) /\ due[v] \in Nat
    BY <1>2, <1>3 DEF OnTime, Slack
  <2>1. due[v] # Never /\ due[v] \in 0 .. RequeueTime \cup {Never}
    BY DEF IInv, OnTime, TypeOK
  <2> QED BY <2>1 DEF IInv, OnTime, Slack
<1> QED BY <1>6, <1>7, <1>8 DEF IInv

\* Keys that are revoked and edits of the ProviderConfig disturb nothing.
LEMMA UserRight ==
  ASSUME IInv, UserRevokes \/ UserConfigures
  PROVE  IInv'
<1>1. /\ edits' \in Nat /\ UNCHANGED <<secret, cache, mem, pc, due, fails, faults>>
      /\ valid' \subseteq ApiKeys /\ config' \in [present : BOOLEAN, ref : BOOLEAN]
      /\ woken' \in [Workers -> BOOLEAN]
  <2>1. CASE UserRevokes
    BY <2>1 DEF UserRevokes, User, IInv, TypeOK
  <2>2. CASE UserConfigures
    <3>1. PICK c \in [present : BOOLEAN, ref : BOOLEAN] : config' = c
      BY <2>2 DEF UserConfigures
    <3> QED BY <2>2, <3>1 DEF UserConfigures, User, IInv, TypeOK
  <2> QED BY <2>1, <2>2
<1>2. TypeOK'
  BY <1>1 DEF IInv, TypeOK
<1>3. CopiesRight' /\ OnTime'
  BY <1>1 DEF IInv, CopiesRight, OnTime, Slack
<1> QED BY <1>2, <1>3 DEF IInv

\* Every step keeps the invariant.
LEMMA NextRight == IInv /\ [Next]_vars => IInv'
<1> SUFFICES ASSUME IInv, [Next]_vars PROVE IInv'
  OBVIOUS
<1>1. ASSUME NEW w \in Workers, Renewal(w) PROVE IInv'
  BY <1>1, StartRight, AuthenticateRight, UpdateRight DEF Renewal
<1>2. ASSUME NEW w \in Workers, AuthenticateFails(w) \/ UpdateFails(w) PROVE IInv'
  BY <1>2, FaultRight
<1>3. ASSUME NEW w \in Workers, SyncCache(w) PROVE IInv'
  BY <1>3, SyncRight
<1>4. ASSUME NEW w \in Workers, Crash(w) PROVE IInv'
  BY <1>4, CrashRight
<1>5. CASE Tick
  BY <1>5, TickRight
<1>6. CASE UserRotates
  BY <1>6, RotateRight
<1>7. CASE UserRevokes \/ UserConfigures
  BY <1>7, UserRight
<1>8. CASE UNCHANGED vars
  BY <1>8 DEF vars, IInv, TypeOK, CopiesRight, OnTime, Slack
<1> QED BY <1>1, <1>2, <1>3, <1>4, <1>5, <1>6, <1>7, <1>8 DEF Next

\* The inductive invariant holds in every reachable state, whatever fails and
\* whatever the users do.
THEOREM InvCorrect == Spec => []IInv
<1>1. Init => IInv
  BY InitRight
<1>2. IInv /\ [Next]_vars => IInv'
  BY NextRight
<1> QED BY <1>1, <1>2, PTL DEF Spec

\* Every reachable state is well typed.
THEOREM TypeCorrect == Spec => []TypeOK
<1>1. IInv => TypeOK
  BY DEF IInv
<1> QED BY <1>1, InvCorrect, PTL

\* No call is made with an expired token unless two renewals in a row failed.
THEOREM TokensValid == Spec => []TokenValid
<1>1. IInv => TokenValid
  <2> SUFFICES ASSUME IInv, NEW v \in Workers, cache[v].fresh, Expired(cache[v].obj.token),
                      NEW w \in Workers, fails[w] # 2
               PROVE  FALSE
    BY DEF TokenValid, GetAuthInfo, Stuck
  <2>1. secret.token # NoToken /\ secret.token.age = Lifetime
    BY DEF IInv, CopiesRight, Expired
  <2>2. due[w] # Never /\ secret.token.age + due[w] <= Slack(w)
    BY <2>1 DEF IInv, OnTime
  <2>3. due[w] \in 0 .. RequeueTime
    BY <2>2 DEF IInv, TypeOK
  <2> QED BY <2>1, <2>2, <2>3, TokenAssumption DEF Slack
<1> QED BY <1>1, InvCorrect, PTL

\* A rotated key is in use after a renewal and a retry, unless two in a row failed.
THEOREM KeysInUse == Spec => []KeyInUse
<1>1. IInv => KeyInUse
  <2> SUFFICES ASSUME IInv, secret.since > Settling, secret.token # NoToken,
                      secret.token.key # secret.key, NEW w \in Workers, fails[w] # 2
               PROVE  FALSE
    BY DEF KeyInUse, Stuck
  <2>1. due[w] # Never /\ secret.since + due[w] <= Slack(w)
    BY DEF IInv, OnTime
  <2>2. due[w] \in 0 .. RequeueTime /\ secret.since \in 0 .. Settling + 1
    BY <2>1 DEF IInv, TypeOK
  <2> QED BY <2>1, <2>2, TokenAssumption DEF Slack
<1> QED BY <1>1, InvCorrect, PTL

\* Only the user changes the key in the secret.
THEOREM KeysKept == Spec => KeyKept
<1>1. IInv /\ [Next]_vars => [secret'.key # secret.key => edits' # edits]_vars
  <2> SUFFICES ASSUME IInv, Next, secret'.key # secret.key PROVE edits' # edits
    OBVIOUS
  <2>1. ASSUME NEW w \in Workers, Start(w) PROVE secret' = secret
    BY <2>1 DEF Start
  <2>2. ASSUME NEW w \in Workers, Authenticate(w) PROVE secret' = secret
    BY <2>2 DEF Authenticate
  <2>3. ASSUME NEW w \in Workers, Update(w) PROVE secret'.key = secret.key
    BY <2>3, StoreKeeps DEF Update
  <2>4. ASSUME NEW w \in Workers,
               AuthenticateFails(w) \/ UpdateFails(w) \/ SyncCache(w) \/ Crash(w)
        PROVE  secret' = secret
    BY <2>4 DEF AuthenticateFails, UpdateFails, SyncCache, Crash
  <2>5. Tick => secret'.key = secret.key
    BY DEF Tick, Aged, IInv, TypeOK
  <2>6. UserRotates \/ UserRevokes \/ UserConfigures => edits' # edits
    <3>1. edits \in Nat
      BY DEF IInv, TypeOK
    <3>2. User => edits' # edits
      BY <3>1 DEF User
    <3> QED BY <3>2 DEF UserRotates, UserRevokes, UserConfigures
  <2> QED BY <2>1, <2>2, <2>3, <2>4, <2>5, <2>6 DEF Next, Renewal
<1> QED BY <1>1, InvCorrect, PTL DEF Spec, KeyKept
=============================================================================
