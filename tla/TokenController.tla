-------------------------- MODULE TokenController ---------------------------
(***************************************************************************)
(* The token controller (pkg/controller/config/token.go): it exchanges the *)
(* API key in the secret that the ProviderConfig names for an access       *)
(* token, writes the token beside the key, and does so again every         *)
(* RequeueTime.  The managed resources' passes take the token from there   *)
(* (GetAuthInfo).  The API server, the work queue and IAM are external.    *)
(*                                                                         *)
(* Time passes in ticks, which last longer than a pass or the informers'   *)
(* lag.  A token that was issued one Lifetime ago has expired.             *)
(***************************************************************************)
EXTENDS Naturals

CONSTANTS Workers,      \* replicas of the provider
          ApiKeys,
          RequeueTime,  \* ticks between renewals
          MaxBackoff,   \* ticks the work queue waits at most before a retry
          Lifetime,     \* ticks a token is valid
          NoToken,
          Never,
          FaultKinds,   \* the faults that may happen
          MaxFaults,    \* bound: how many of them
          MaxEdits      \* bound: how many actions of users

ASSUME TokenAssumption ==
  /\ RequeueTime \in Nat \ {0} /\ MaxBackoff \in Nat /\ MaxFaults \in Nat /\ MaxEdits \in Nat
  /\ Lifetime \in Nat /\ Never \notin Nat /\ NoToken \notin [key : ApiKeys, age : 0 .. Lifetime]
  /\ MaxBackoff <= RequeueTime /\ RequeueTime + MaxBackoff < Lifetime
  /\ ApiKeys # {}

VARIABLES config,  \* the ProviderConfig: is it there, does it name a secret
          secret,  \* the secret: its key, its token, and for how long it has the key
          valid,   \* the keys that IAM accepts
          cache,   \* cache[w]: the informer's copy of the secret in replica w
          mem,     \* mem[w]: the secret as w's pass has read it
          pc,      \* pc[w]: where w is in its pass
          due,     \* due[w]: ticks until the work queue starts w's next pass
          woken,   \* woken[w]: an event asks for a pass
          fails,   \* fails[w]: passes that failed since one succeeded; 2 for more, or if
           \* there was nothing to renew
          faults,  \* faults so far
          edits    \* actions of users so far

vars == <<config, secret, valid, cache, mem, pc, due, woken, fails, faults, edits>>

Tokens == [key : ApiKeys, age : 0 .. Lifetime]

\* A key is known to be in use once it has been there for longer than this.
Settling == RequeueTime + MaxBackoff

Secrets == [key : ApiKeys, token : Tokens \cup {NoToken}, since : 0 .. Settling + 1]

Copies == [obj : Secrets, fresh : BOOLEAN]

NoCopy == [fresh |-> FALSE]

Init ==
  /\ config \in [present : {TRUE}, ref : BOOLEAN]
  /\ secret \in [key : ApiKeys, token : {NoToken}, since : {0}]
  /\ valid = ApiKeys
  /\ cache = [w \in Workers |-> [obj |-> secret, fresh |-> TRUE]]
  /\ mem = [w \in Workers |-> NoCopy]
  /\ pc = [w \in Workers |-> "idle"]
  /\ due = [w \in Workers |-> 0]
  /\ woken = [w \in Workers |-> FALSE]
  /\ fails = [w \in Workers |-> 0]
  /\ faults = 0
  /\ edits = 0

-----------------------------------------------------------------------------
Fault(k) == k \in FaultKinds /\ faults < MaxFaults /\ faults' = faults + 1

Outdate(copies) == [w \in Workers |-> [copies[w] EXCEPT !.fresh = FALSE]]

\* Mutated: an error ends the renewals.
Abandon(w) ==
  /\ pc' = [pc EXCEPT ![w] = "idle"]
  /\ mem' = [mem EXCEPT ![w] = NoCopy]
  /\ fails' = [fails EXCEPT ![w] = IF @ = 2 THEN 2 ELSE @ + 1]
  /\ due' = [due EXCEPT ![w] = Never]

\* The pass returns an error and is retried after a back-off.
Fail(w) ==
  /\ pc' = [pc EXCEPT ![w] = "idle"]
  /\ mem' = [mem EXCEPT ![w] = NoCopy]
  /\ fails' = [fails EXCEPT ![w] = IF @ = 2 THEN 2 ELSE @ + 1]
  /\ \E d \in 0 .. MaxBackoff : due' = [due EXCEPT ![w] = d]

\* A pass reads the ProviderConfig and its secret; there is none to renew for a
\* ProviderConfig that is gone.
Start(w) ==
  /\ pc[w] = "idle" /\ (due[w] = 0 \/ woken[w])
  /\ woken' = [woken EXCEPT ![w] = FALSE]
  /\ \/ /\ config.present /\ config.ref
        /\ mem' = [mem EXCEPT ![w] = cache[w]]
        /\ pc' = [pc EXCEPT ![w] = "authenticate"]
        /\ UNCHANGED <<due, fails>>
     \/ /\ config.present /\ ~config.ref
        /\ Fail(w)
     \/ /\ ~config.present
        /\ due' = [due EXCEPT ![w] = Never]
        /\ fails' = [fails EXCEPT ![w] = 2]
        /\ UNCHANGED <<mem, pc>>
  /\ UNCHANGED <<config, secret, valid, cache, faults, edits>>

\* Mutated: the key that gave the token is taken again.
AuthenticateAgain(w) ==
  /\ pc[w] = "authenticate"
  /\ LET key == IF mem[w].obj.token = NoToken THEN mem[w].obj.key ELSE mem[w].obj.token.key
     IN  IF key \in valid
         THEN /\ mem' = [mem EXCEPT ![w].obj.token = [key |-> key, age |-> 0]]
              /\ pc' = [pc EXCEPT ![w] = "update"]
              /\ UNCHANGED <<due, fails>>
         ELSE Fail(w)
  /\ UNCHANGED <<config, secret, valid, cache, woken, faults, edits>>

\* AuthenticateAPIKey: IAM issues a token for a key it knows.
Authenticate(w) ==
  /\ pc[w] = "authenticate"
  /\ IF mem[w].obj.key \in valid
     THEN /\ mem' = [mem EXCEPT ![w].obj.token = [key |-> mem[w].obj.key, age |-> 0]]
          /\ pc' = [pc EXCEPT ![w] = "update"]
          /\ UNCHANGED <<due, fails>>
     ELSE Fail(w)
  /\ UNCHANGED <<config, secret, valid, cache, woken, faults, edits>>

AuthenticateFails(w) ==
  /\ pc[w] = "authenticate"
  /\ Fault("error")
  /\ Fail(w)
  /\ UNCHANGED <<config, secret, valid, cache, woken, edits>>

\* Mutated: the next pass is due when the token expires.
AtExpiry == Lifetime

NextRenewal == RequeueTime

\* The secret is stored as the pass has it.
Store(w) ==
  /\ secret' = mem[w].obj
  /\ cache' = Outdate(cache)
  /\ mem' = [Outdate(mem) EXCEPT ![w] = NoCopy]
  /\ pc' = [pc EXCEPT ![w] = "idle"]
  /\ fails' = [fails EXCEPT ![w] = 0]
  /\ due' = [due EXCEPT ![w] = NextRenewal]

\* Mutated: the version that was read is not compared.
UpdateUnconditional(w) ==
  /\ pc[w] = "update"
  /\ Store(w)
  /\ UNCHANGED <<config, valid, woken, faults, edits>>

\* client.Update: 409 unless what was read is the latest version.
Update(w) ==
  /\ pc[w] = "update"
  /\ IF mem[w].fresh THEN Store(w) ELSE Fail(w) /\ UNCHANGED <<secret, cache>>
  /\ UNCHANGED <<config, valid, woken, faults, edits>>

UpdateFails(w) ==
  /\ pc[w] = "update"
  /\ Fault("error")
  /\ Fail(w)
  /\ UNCHANGED <<config, secret, valid, cache, woken, edits>>

-----------------------------------------------------------------------------
SyncCache(w) ==
  /\ ~cache[w].fresh
  /\ cache' = [cache EXCEPT ![w] = [obj |-> secret, fresh |-> TRUE]]
  /\ UNCHANGED <<config, secret, valid, mem, pc, due, woken, fails, faults, edits>>

\* The process is started again, and what it finds is new to it.
Crash(w) ==
  /\ Fault("crash")
  /\ pc' = [pc EXCEPT ![w] = "idle"]
  /\ mem' = [mem EXCEPT ![w] = NoCopy]
  /\ cache' = [cache EXCEPT ![w] = [obj |-> secret, fresh |-> TRUE]]
  /\ due' = [due EXCEPT ![w] = 0]
  /\ woken' = [woken EXCEPT ![w] = FALSE]
  /\ UNCHANGED <<config, secret, valid, fails, edits>>

Older(age, most) == IF age = most THEN most ELSE age + 1

AgedToken(token) ==
  IF token = NoToken THEN NoToken ELSE [token EXCEPT !.age = Older(@, Lifetime)]

Aged(s) == [s EXCEPT !.since = Older(@, Settling + 1), !.token = AgedToken(@)]

\* Nothing that is due is late.
Tick ==
  /\ \A w \in Workers : pc[w] = "idle" /\ due[w] # 0 /\ ~woken[w] /\ cache[w].fresh
  /\ secret' = Aged(secret)
  /\ cache' = [w \in Workers |-> [obj |-> secret', fresh |-> TRUE]]
  /\ due' = [w \in Workers |-> IF due[w] = Never THEN Never ELSE due[w] - 1]
  /\ UNCHANGED <<config, valid, mem, pc, woken, fails, faults, edits>>

-----------------------------------------------------------------------------
User == edits < MaxEdits /\ edits' = edits + 1

\* The key in the secret is rotated.  The controller watches ProviderConfigs only.
UserRotates ==
  /\ User
  /\ \E k \in ApiKeys \ {secret.key} :
       secret' = [secret EXCEPT !.key = k, !.since = 0]
  /\ cache' = Outdate(cache)
  /\ mem' = Outdate(mem)
  /\ UNCHANGED <<config, valid, pc, due, woken, fails, faults>>

UserRevokes ==
  /\ User
  /\ \E k \in valid : valid' = valid \ {k}
  /\ UNCHANGED <<config, secret, cache, mem, pc, due, woken, fails, faults>>

\* The ProviderConfig is edited, deleted or applied again.
UserConfigures ==
  /\ User
  /\ \E c \in [present : BOOLEAN, ref : BOOLEAN] : c # config /\ config' = c
  /\ woken' = [w \in Workers |-> TRUE]
  /\ UNCHANGED <<secret, valid, cache, mem, pc, due, fails, faults>>

-----------------------------------------------------------------------------
Renewal(w) == Start(w) \/ Authenticate(w) \/ Update(w)

Next ==
  \/ \E w \in Workers :
       Renewal(w) \/ AuthenticateFails(w) \/ UpdateFails(w) \/ SyncCache(w) \/ Crash(w)
  \/ Tick
  \/ UserRotates \/ UserRevokes \/ UserConfigures

Spec == Init /\ [][Next]_vars

\* Passes that are due run, informers catch up, and time goes on.
Fairness ==
  /\ \A w \in Workers : WF_vars(Renewal(w)) /\ WF_vars(SyncCache(w))
  /\ WF_vars(Tick)

FairSpec == Spec /\ Fairness

-----------------------------------------------------------------------------
(***************************************************************************)
(* Properties                                                              *)
(***************************************************************************)
\* Every variable has its type, and a pass that talks to IAM has read a secret.
TypeOK ==
  /\ config \in [present : BOOLEAN, ref : BOOLEAN]
  /\ secret \in Secrets
  /\ valid \subseteq ApiKeys
  /\ cache \in [Workers -> Copies]
  /\ mem \in [Workers -> Copies \cup {NoCopy}]
  /\ pc \in [Workers -> {"idle", "authenticate", "update"}]
  /\ due \in [Workers -> 0 .. RequeueTime \cup {Never}]
  /\ woken \in [Workers -> BOOLEAN]
  /\ fails \in [Workers -> 0 .. 2]
  /\ faults \in Nat /\ edits \in Nat
  /\ \A w \in Workers : pc[w] # "idle" => mem[w] \in Copies

Expired(token) == token # NoToken /\ token.age = Lifetime

\* No replica is at work on renewals: nobody asked, or two passes in a row failed.
Stuck == ~config.present \/ \A w \in Workers : fails[w] = 2

\* What GetAuthInfo gives to a pass of a managed resource.
GetAuthInfo(w) == cache[w].obj.token

\* A call to the cloud is made with an expired token only if two renewals in a row
\* failed, or the informer has yet to deliver the next token: one failure, a crash, a
\* conflict of two replicas or a rotation of the key do no harm.
TokenValid == \A w \in Workers : cache[w].fresh /\ Expired(GetAuthInfo(w)) => Stuck

\* A rotated key is in use, without any event about it, after a renewal and a retry.
KeyInUse ==
  secret.since > Settling /\ secret.token # NoToken /\ secret.token.key # secret.key => Stuck

\* What is read is what was stored, until the version changes; a new token is of the
\* key that was read.
CopiesRight ==
  \A w \in Workers :
    /\ cache[w].fresh => cache[w].obj = secret
    /\ pc[w] # "idle" /\ mem[w].fresh =>
         mem[w].obj.key = secret.key /\ mem[w].obj.since = secret.since
    /\ pc[w] = "update" => mem[w].obj.token = [key |-> mem[w].obj.key, age |-> 0]

\* What w may be late, in ticks, by the passes of its that failed.
Slack(w) == RequeueTime + (IF fails[w] = 0 THEN 0 ELSE MaxBackoff)

\* A replica that has not failed twice has a pass to come, in time for the token and
\* for the key.
OnTime ==
  \A w \in Workers : fails[w] # 2 =>
    /\ due[w] # Never
    /\ secret.token # NoToken => secret.token.age + due[w] <= Slack(w)
    /\ secret.token # NoToken /\ secret.token.key # secret.key =>
         secret.since + due[w] <= Slack(w)

\* The inductive invariant: what TokenValid, KeyInUse and KeyKept rest on.
IInv == TypeOK /\ CopiesRight /\ OnTime

\* The secret is written back as a whole, but a key the user has put there while
\* the token was being fetched is never overwritten.
KeyKept == [][secret'.key # secret.key => edits' # edits]_vars

Renewable == config.present /\ config.ref /\ secret.key \in valid

\* Once faults and users leave the system alone, what it needs to renew the token is
\* enough to have, for good, an unexpired token of the key in the secret.
Recovers ==
  <>[](Renewable => secret.token # NoToken /\ ~Expired(secret.token)
                    /\ secret.token.key = secret.key)
=============================================================================
