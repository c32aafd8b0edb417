----------------------------- MODULE ServerProofs -----------------------------
(* What the server keeps for later. For any handlers, copies, clocks and      *)
(* retention: how often a signed request is honoured. For any blobs, lifetimes*)
(* and delays of the event loop: how the queue of blobs empties. For any      *)
(* number of messages and any MAX_SKIP: what a session of the ratchet keeps.  *)
EXTENDS MCServer, Sequences, FiniteSetTheorems, TLAPS

-----------------------------------------------------------------------------
(* Signed requests (SignedRequest).                                          *)

Working(h) == handler[h].pc = "working"

(* A request in progress was fresh when it came in and is not slower than    *)
(* MaxWork.                                                                  *)
Timely ==
  \A h \in Handlers : handler[h] # Idle =>
    /\ handler[h].since <= now /\ now <= handler[h].since + MaxWork
    /\ handler[h].since <= stamp[handler[h].key] + Past
    /\ stamp[handler[h].key] <= handler[h].since + Future

(* While a handler works its claim stands: it cannot expire, for the work is *)
(* shorter than the retention, and no sweep takes it.                        *)
Holding ==
  \A h \in Handlers : Working(h) =>
    LET k == handler[h].key
        t == handler[h].token
    IN /\ memory_cache[k].state = "pending" /\ memory_cache[k].token = t
       /\ memory_cache[k].expires = grants[t].at + Retention
       /\ grants[t].fate = "open"
       /\ handler[h].since <= grants[t].at /\ grants[t].at <= now

(* A token works for one handler.                                            *)
OneHolder ==
  \A g, h \in Handlers :
    g # h /\ Working(g) /\ Working(h) => handler[g].token # handler[h].token

(* An honoured request stays in the registry, consumed, until its retention  *)
(* is over; it was claimed while it was fresh.                               *)
Remembered ==
  \A k \in Keys : \A t \in accepted[k] :
    /\ grants[t].fate = "consumed"
    /\ grants[t].at + Retention <= grants[t].until
    /\ grants[t].at <= stamp[k] + Past + MaxWork
    /\ stamp[k] <= grants[t].at + Future
    /\ now < grants[t].until =>
         memory_cache[k].state = "consumed" /\ memory_cache[k].expires = grants[t].until

(* A claim comes after the retention of every copy honoured before it.       *)
Later ==
  \A h \in Handlers : Working(h) =>
    \A s \in accepted[handler[h].key] :
      grants[s].until <= grants[handler[h].token].at

Ordered ==
  \A k \in Keys : \A s, t \in accepted[k] :
    s # t => grants[s].until <= grants[t].at \/ grants[t].until <= grants[s].at

Inv == Timely /\ Holding /\ OneHolder /\ Remembered /\ Later /\ Ordered
IInv == TypeOK /\ Inv

-----------------------------------------------------------------------------
LEMMA RetentionType == Retention \in Nat \ {0} /\ MaxWork \in Nat /\ Past \in Nat
                       /\ Future \in Nat /\ MaxWork < Retention
  BY TtlsAssumption, WindowAssumption, RetentionAssumption

LEMMA InitInv == Init => IInv
<1> SUFFICES ASSUME Init PROVE IInv
  OBVIOUS
<1>1. TypeOK
  BY KeysAssumption, TokensAssumption
  DEF Init, TypeOK, Registry!Init, Registry!TypeOK, Registry!Missing, Registry!Entry,
      Registry!NoGrant, Registry!Grant
<1>2. Inv
  BY DEF Init, Idle, Inv, Timely, Holding, OneHolder, Remembered, Later, Ordered, Working
<1> QED
  BY <1>1, <1>2 DEF IInv

(* What is left of the entries after a sweep.                                *)
LEMMA PrunedEffect ==
  ASSUME Registry!TypeOK
  PROVE  /\ Registry!Pruned \in [Keys -> Registry!Entry]
         /\ \A k \in Keys :
              \/ Registry!Pruned[k] = memory_cache[k]
              \/ /\ Registry!Pruned[k].state = "missing"
                 /\ memory_cache[k].expires <= now
         /\ \A k \in Keys :
              Registry!Held(Registry!Pruned, k) =>
                Registry!Pruned[k] = memory_cache[k] /\ now < memory_cache[k].expires
<1>1. Registry!Missing \in Registry!Entry
  BY DEF Registry!Missing, Registry!Entry
<1>2. \A k \in Keys : memory_cache[k].expires \in Int
  BY DEF Registry!TypeOK, Registry!Entry
<1> QED
  BY <1>1, <1>2 DEF Registry!Pruned, Registry!Swept, Registry!ExpiredKeys,
                    Registry!TypeOK, Registry!Missing, Registry!Held

LEMMA ClaimEffect ==
  ASSUME TypeOK, NEW k \in Keys, NEW t \in Tokens, Registry!Claim(k, t, Retention)
  PROVE  /\ Registry!TypeOK'
         /\ now' = now
         /\ grants[t].fate = "unused"
         /\ memory_cache[k].state = "missing" \/ memory_cache[k].expires <= now
         /\ memory_cache'[k].state = "pending" /\ memory_cache'[k].token = t
         /\ memory_cache'[k].expires = now + Retention
         /\ grants'[t].fate = "open" /\ grants'[t].at = now
         /\ \A s \in Tokens \ {t} : grants'[s] = grants[s]
         /\ \A x \in Keys \ {k} : \/ memory_cache'[x] = memory_cache[x]
                                  \/ /\ memory_cache'[x].state = "missing"
                                     /\ memory_cache[x].expires <= now
<1> USE RetentionType DEF TypeOK, Registry!TypeOK
<1>1. Registry!PendingEntry(t, now + Retention) \in Registry!Entry
  BY DEF Registry!PendingEntry, Registry!Entry
<1>2. Registry!OpenGrant(k, now, now + Retention) \in Registry!Grant
  BY DEF Registry!OpenGrant, Registry!Grant
<1>3. Registry!TypeOK'
  BY <1>1, <1>2, PrunedEffect DEF Registry!Claim
<1> QED
  BY <1>3, PrunedEffect
  DEF Registry!Claim, Registry!PendingEntry, Registry!OpenGrant, Registry!Held

LEMMA SweepEffect ==
  ASSUME TypeOK, NEW k \in Keys, Registry!ClaimRefused(k)
  PROVE  /\ Registry!TypeOK'
         /\ now' = now /\ grants' = grants
         /\ \A x \in Keys : \/ memory_cache'[x] = memory_cache[x]
                            \/ /\ memory_cache'[x].state = "missing"
                               /\ memory_cache[x].expires <= now
  BY PrunedEffect DEF Registry!ClaimRefused, TypeOK, Registry!TypeOK

LEMMA SettleEffect ==
  ASSUME TypeOK, NEW k \in Keys, NEW t \in Tokens, NEW outcome \in Registry!Settled,
         Registry!Settle(k, t, outcome, Retention)
  PROVE  /\ Registry!TypeOK'
         /\ now' = now
         /\ memory_cache'[k].state = outcome
         /\ memory_cache'[k].expires = now + Retention
         /\ grants'[t].fate = outcome /\ grants'[t].at = grants[t].at
         /\ grants'[t].until = now + Retention
         /\ \A s \in Tokens \ {t} : grants'[s] = grants[s]
         /\ \A x \in Keys \ {k} : memory_cache'[x] = memory_cache[x]
<1> USE RetentionType DEF TypeOK, Registry!TypeOK
<1>0. now + Retention \in Int /\ memory_cache[k] \in Registry!Entry
      /\ grants[t] \in Registry!Grant
  OBVIOUS
<1>1. [memory_cache[k] EXCEPT !.state = outcome, !.expires = now + Retention]
        \in Registry!Entry
  BY <1>0 DEF Registry!Entry
<1>2. [grants[t] EXCEPT !.fate = outcome, !.until = now + Retention] \in Registry!Grant
  BY <1>0 DEF Registry!Grant
<1>3. /\ memory_cache' = [memory_cache EXCEPT ![k] =
           [memory_cache[k] EXCEPT !.state = outcome, !.expires = now + Retention]]
      /\ grants' = [grants EXCEPT ![t] =
           [grants[t] EXCEPT !.fate = outcome, !.until = now + Retention]]
  BY DEF Registry!Settle
<1> QED
  BY <1>1, <1>2, <1>3 DEF Registry!Settle, Registry!Entry, Registry!Grant

LEMMA ReleaseEffect ==
  ASSUME TypeOK, NEW k \in Keys, NEW t \in Tokens, Registry!Release(k, t)
  PROVE  /\ Registry!TypeOK'
         /\ now' = now
         /\ grants'[t].fate = "released"
         /\ \A s \in Tokens \ {t} : grants'[s] = grants[s]
         /\ \A x \in Keys \ {k} : memory_cache'[x] = memory_cache[x]
         /\ memory_cache'[k].state = "missing"
<1> USE DEF TypeOK, Registry!TypeOK
<1>1. [grants[t] EXCEPT !.fate = "released"] \in Registry!Grant
  BY DEF Registry!Grant
<1>2. Registry!Missing \in Registry!Entry
  BY DEF Registry!Missing, Registry!Entry
<1> QED
  BY <1>1, <1>2 DEF Registry!Release, Registry!Missing, Registry!Grant

-----------------------------------------------------------------------------
(* What the type invariant says of a handler.                                *)
LEMMA HandlerType ==
  ASSUME TypeOK, NEW h \in Handlers
  PROVE  /\ handler[h] # Idle => handler[h].key \in Keys /\ handler[h].since \in Nat
         /\ Working(h) => handler[h] # Idle /\ handler[h].token \in Tokens
         /\ handler[h].pc = "verified" => handler[h] # Idle
  BY DEF TypeOK, Idle, Working

(* The claim of a handler at work has not expired.                           *)
LEMMA ClaimStands ==
  ASSUME IInv, NEW h \in Handlers, Working(h)
  PROVE  LET k == handler[h].key
             t == handler[h].token
         IN /\ k \in Keys /\ t \in Tokens
            /\ handler[h] # Idle /\ handler[h].since \in Nat
            /\ memory_cache[k].state = "pending" /\ memory_cache[k].token = t
            /\ memory_cache[k].expires \in Int /\ now < memory_cache[k].expires
            /\ memory_cache[k].expires = grants[t].at + Retention
            /\ grants[t].fate = "open" /\ grants[t].at \in Int
            /\ handler[h].since <= grants[t].at /\ grants[t].at <= now
            /\ now <= handler[h].since + MaxWork
<1> DEFINE k == handler[h].key
           t == handler[h].token
<1>1. k \in Keys /\ t \in Tokens /\ handler[h] # Idle /\ handler[h].since \in Nat
  BY HandlerType DEF IInv
<1>2. grants[t].at \in Int /\ now \in Nat /\ memory_cache[k].expires \in Int
  BY <1>1 DEF IInv, TypeOK, Registry!TypeOK, Registry!Grant, Registry!Entry
<1>3. /\ memory_cache[k].state = "pending" /\ memory_cache[k].token = t
      /\ memory_cache[k].expires = grants[t].at + Retention
      /\ grants[t].fate = "open"
      /\ handler[h].since <= grants[t].at /\ grants[t].at <= now
  BY DEF IInv, Inv, Holding
<1>4. now <= handler[h].since + MaxWork
  BY <1>1 DEF IInv, Inv, Timely
<1> QED
  BY <1>1, <1>2, <1>3, <1>4, RetentionType

(* Two handlers at work hold different keys, hence different claims.         *)
LEMMA HoldApart ==
  ASSUME IInv, NEW g \in Handlers, NEW h \in Handlers, g # h, Working(g), Working(h)
  PROVE  handler[g].key # handler[h].key /\ handler[g].token # handler[h].token
  BY ClaimStands DEF IInv, Inv, OneHolder

LEMMA ArriveStep ==
  ASSUME IInv, NEW h \in Handlers, NEW k \in Keys, Arrive(h, k)
  PROVE  IInv'
<1> USE RetentionType DEF IInv
<1>e. /\ handler' = [handler EXCEPT ![h] = [pc |-> "verified", key |-> k, since |-> now]]
      /\ now' = now /\ memory_cache' = memory_cache /\ grants' = grants
      /\ stamp' = stamp /\ accepted' = accepted
      /\ now - Past <= stamp[k] /\ stamp[k] <= now + Future
  BY DEF Arrive, registryVars
<1>t. TypeOK'
  BY <1>e DEF TypeOK, Registry!TypeOK
<1>w. \A g \in Handlers : Working(g)' => g # h /\ Working(g) /\ handler'[g] = handler[g]
  BY <1>e DEF TypeOK, Working
<1>n. now \in Nat /\ stamp[k] \in Nat
  BY StampsAssumption DEF TypeOK, Registry!TypeOK
<1>1. Timely'
  <2>1. ASSUME NEW g \in Handlers, g # h PROVE handler'[g] = handler[g]
    BY <1>e, <2>1 DEF TypeOK
  <2>2. handler'[h].since = now /\ handler'[h].key = k
    BY <1>e DEF TypeOK
  <2> QED
    BY <1>e, <1>n, <2>1, <2>2 DEF Inv, Timely
<1>2. Holding' /\ OneHolder' /\ Later'
  BY <1>e, <1>w DEF Inv, Holding, OneHolder, Later
<1>3. Remembered' /\ Ordered'
  BY <1>e DEF Inv, Remembered, Ordered
<1> QED
  BY <1>t, <1>1, <1>2, <1>3 DEF Inv

LEMMA ClaimStep ==
  ASSUME IInv, NEW h \in Handlers, NEW t \in Tokens, ClaimGranted(h, t)
  PROVE  IInv'
<1> DEFINE k == handler[h].key
<1> USE RetentionType DEF IInv
<1>h. handler[h] # Idle /\ k \in Keys /\ handler[h].since \in Nat
  BY HandlerType DEF ClaimGranted
<1>n. now \in Nat
  BY DEF TypeOK, Registry!TypeOK
<1>e. /\ Registry!TypeOK'
      /\ now' = now
      /\ grants[t].fate = "unused"
      /\ memory_cache[k].state = "missing" \/ memory_cache[k].expires <= now
      /\ memory_cache'[k].state = "pending" /\ memory_cache'[k].token = t
      /\ memory_cache'[k].expires = now + Retention
      /\ grants'[t].fate = "open" /\ grants'[t].at = now
      /\ \A s \in Tokens \ {t} : grants'[s] = grants[s]
      /\ \A x \in Keys \ {k} : \/ memory_cache'[x] = memory_cache[x]
                               \/ /\ memory_cache'[x].state = "missing"
                                  /\ memory_cache[x].expires <= now
  BY <1>h, ClaimEffect DEF ClaimGranted
<1>s. stamp' = stamp /\ accepted' = accepted
  BY DEF ClaimGranted
<1>f. handler' = [handler EXCEPT ![h] = [pc |-> "working", key |-> k,
                                         since |-> handler[h].since, token |-> t]]
  BY DEF ClaimGranted
<1> HIDE DEF k
<1>t. TypeOK'
  BY <1>e, <1>f, <1>h, <1>s DEF TypeOK
<1>o. /\ handler'[h].key = k /\ handler'[h].token = t
      /\ handler'[h].since = handler[h].since
      /\ \A g \in Handlers \ {h} : handler'[g] = handler[g]
  BY <1>f DEF TypeOK
(* The others hold other keys and tokens.                                    *)
<1>w. ASSUME NEW g \in Handlers, g # h, Working(g)
      PROVE  /\ handler[g].key \in Keys \ {k}
             /\ handler[g].token \in Tokens \ {t}
             /\ now < memory_cache[handler[g].key].expires
  BY <1>e, <1>n, <1>w, ClaimStands
(* What has been honoured and is still remembered is of another key.         *)
<1>a. ASSUME NEW x \in Keys, NEW s \in accepted[x]
      PROVE  /\ s \in Tokens \ {t} /\ grants[s].until \in Int
             /\ x = k => grants[s].until <= now
             /\ now < grants[s].until => memory_cache'[x] = memory_cache[x]
  <2>1. s \in Tokens /\ grants[s].until \in Int
    BY DEF TypeOK, Registry!TypeOK, Registry!Grant
  <2>2. s # t
    BY <1>e DEF Inv, Remembered
  <2>3. now < grants[s].until =>
          memory_cache[x].state = "consumed" /\ memory_cache[x].expires = grants[s].until
    BY DEF Inv, Remembered
  <2> QED
    BY <1>e, <1>n, <2>1, <2>2, <2>3
<1>1. Timely'
  <2>1. ASSUME NEW g \in Handlers \ {h} PROVE handler'[g] = handler[g]
    BY <1>o
  <2> QED
    BY <1>e, <1>s, <1>o, <1>h, <2>1 DEF Inv, Timely, k
<1>2. Holding'
  <2> SUFFICES ASSUME NEW g \in Handlers, Working(g)'
               PROVE (LET x == handler[g].key
                          u == handler[g].token
                      IN /\ memory_cache[x].state = "pending" /\ memory_cache[x].token = u
                         /\ memory_cache[x].expires = grants[u].at + Retention
                         /\ grants[u].fate = "open"
                         /\ handler[g].since <= grants[u].at /\ grants[u].at <= now)'
    BY DEF Holding
  <2>1. CASE g = h
    BY <1>e, <1>o, <1>n, <1>h, <2>1 DEF Inv, Timely
  <2>2. CASE g # h
    <3>1. Working(g)
      BY <1>o, <2>2 DEF Working
    <3>2. memory_cache'[handler[g].key] = memory_cache[handler[g].key]
      <4>1. memory_cache[handler[g].key].expires \in Int
        BY <1>w, <2>2, <3>1 DEF TypeOK, Registry!TypeOK, Registry!Entry
      <4> QED
        BY <1>e, <1>n, <1>w, <2>2, <3>1, <4>1
    <3> QED
      BY <1>e, <1>o, <1>w, <2>2, <3>1, <3>2 DEF Inv, Holding
  <2> QED
    BY <2>1, <2>2
<1>3. OneHolder'
  BY <1>o, <1>w DEF Inv, OneHolder, Working
<1>4. Remembered'
  BY <1>a, <1>e, <1>s DEF Inv, Remembered
<1>5. Later'
  <2> SUFFICES ASSUME NEW g \in Handlers, Working(g)', NEW s \in accepted'[handler'[g].key]
               PROVE  grants'[s].until <= grants'[handler'[g].token].at
    BY DEF Later
  <2>1. CASE g = h
    BY <1>a, <1>e, <1>s, <1>o, <1>h, <2>1
  <2>2. CASE g # h
    <3>1. Working(g) /\ handler'[g] = handler[g]
      BY <1>o, <2>2 DEF Working
    <3>2. grants[s].until <= grants[handler[g].token].at /\ s \in Tokens \ {t}
      BY <1>a, <1>s, <1>w, <2>2, <3>1 DEF Inv, Later
    <3> QED
      BY <1>e, <1>w, <2>2, <3>1, <3>2
  <2> QED
    BY <2>1, <2>2
<1>6. Ordered'
  BY <1>a, <1>e, <1>s DEF Inv, Ordered
<1> QED
  BY <1>t, <1>1, <1>2, <1>3, <1>4, <1>5, <1>6 DEF Inv

(* "Replay attack detected": the registry may have been swept.               *)
LEMMA DeniedStep ==
  ASSUME IInv, NEW h \in Handlers, ClaimDenied(h)
  PROVE  IInv'
<1> USE RetentionType DEF IInv
<1>h. handler[h] # Idle /\ handler[h].key \in Keys
  BY HandlerType DEF ClaimDenied
<1>n. now \in Nat
  BY DEF TypeOK, Registry!TypeOK
<1>e. /\ Registry!TypeOK'
      /\ now' = now /\ grants' = grants
      /\ \A x \in Keys : \/ memory_cache'[x] = memory_cache[x]
                         \/ /\ memory_cache'[x].state = "missing"
                            /\ memory_cache[x].expires <= now
  BY <1>h, SweepEffect DEF ClaimDenied
<1>s. stamp' = stamp /\ accepted' = accepted
  BY DEF ClaimDenied
<1>o. /\ handler'[h] = Idle
      /\ \A g \in Handlers \ {h} : handler'[g] = handler[g]
  BY DEF ClaimDenied, TypeOK
<1>t. TypeOK'
  BY <1>e, <1>s DEF TypeOK, ClaimDenied
<1>w. ASSUME NEW g \in Handlers, Working(g)'
      PROVE  Working(g) /\ handler'[g] = handler[g]
             /\ memory_cache'[handler[g].key] = memory_cache[handler[g].key]
  <2>1. Working(g) /\ handler'[g] = handler[g]
    BY <1>o, <1>w DEF Working, Idle
  <2> QED
    BY <1>e, <1>n, <2>1, ClaimStands
<1>1. Timely'
  BY <1>e, <1>s, <1>o DEF Inv, Timely
<1>2. Holding'
  BY <1>e, <1>w DEF Inv, Holding
<1>3. OneHolder' /\ Later'
  BY <1>e, <1>s, <1>w DEF Inv, OneHolder, Later
<1>4. Remembered'
  <2>1. ASSUME NEW x \in Keys, NEW s \in accepted[x], now < grants[s].until
        PROVE  memory_cache'[x] = memory_cache[x]
    <3>1. memory_cache[x].expires = grants[s].until /\ grants[s].until \in Int
      BY <2>1 DEF Inv, Remembered, TypeOK, Registry!TypeOK, Registry!Grant
    <3> QED
      BY <1>e, <1>n, <2>1, <3>1
  <2> QED
    BY <1>e, <1>s, <2>1 DEF Inv, Remembered
<1>5. Ordered'
  BY <1>e, <1>s DEF Inv, Ordered
<1> QED
  BY <1>t, <1>1, <1>2, <1>3, <1>4, <1>5 DEF Inv

(* A handler ends: it settles or hands back the claim it holds.              *)
LEMMA EndStep ==
  ASSUME IInv, NEW h \in Handlers, Working(h),
         handler' = [handler EXCEPT ![h] = Idle], stamp' = stamp, now' = now,
         Registry!TypeOK',
         \A s \in Tokens \ {handler[h].token} : grants'[s] = grants[s],
         \A x \in Keys \ {handler[h].key} : memory_cache'[x] = memory_cache[x],
         \A x \in Keys \ {handler[h].key} : accepted'[x] = accepted[x],
         accepted' \in [Keys -> SUBSET Tokens],
         \A s \in accepted'[handler[h].key] \ accepted[handler[h].key] :
           /\ s = handler[h].token /\ grants'[s].fate = "consumed"
           /\ grants'[s].at = grants[s].at
           /\ grants'[s].until = now + Retention
           /\ memory_cache'[handler[h].key].state = "consumed"
           /\ memory_cache'[handler[h].key].expires = now + Retention,
         accepted[handler[h].key] \subseteq accepted'[handler[h].key]
  PROVE  IInv'
<1> DEFINE k == handler[h].key
           t == handler[h].token
<1> USE RetentionType DEF IInv
<1>n. now \in Nat
  BY DEF TypeOK, Registry!TypeOK
<1>c. /\ k \in Keys /\ t \in Tokens
      /\ handler[h] # Idle /\ handler[h].since \in Nat
      /\ memory_cache[k].state = "pending" /\ memory_cache[k].token = t
      /\ memory_cache[k].expires \in Int /\ now < memory_cache[k].expires
      /\ grants[t].fate = "open" /\ grants[t].at \in Int
      /\ handler[h].since <= grants[t].at /\ grants[t].at <= now
      /\ now <= handler[h].since + MaxWork
  BY ClaimStands
<1>f. /\ handler[h].since <= stamp[k] + Past /\ stamp[k] <= handler[h].since + Future
      /\ stamp[k] \in Nat
  BY <1>c, StampsAssumption DEF Inv, Timely, TypeOK
<1>o. /\ handler'[h] = Idle
      /\ \A g \in Handlers \ {h} : handler'[g] = handler[g]
  BY DEF TypeOK
<1>t. TypeOK'
  BY DEF TypeOK
<1>w. ASSUME NEW g \in Handlers, Working(g)'
      PROVE  /\ Working(g) /\ g # h /\ handler'[g] = handler[g]
             /\ handler[g].key \in Keys \ {k} /\ handler[g].token \in Tokens \ {t}
  <2>1. Working(g) /\ handler'[g] = handler[g] /\ g # h
    BY <1>o, <1>w DEF Working, Idle
  <2> QED
    BY <2>1, ClaimStands, HoldApart
(* What was honoured before: of an older claim, and the entry of k, which is *)
(* pending, is not about it.                                                 *)
<1>a. ASSUME NEW x \in Keys, NEW s \in accepted[x]
      PROVE  /\ s \in Tokens \ {t} /\ grants[s].until \in Int /\ grants[s].at \in Int
             /\ x = k => grants[s].until <= grants[t].at
             /\ now < grants[s].until => x # k
  <2>1. s \in Tokens /\ grants[s].until \in Int /\ grants[s].at \in Int
    BY DEF TypeOK, Registry!TypeOK, Registry!Grant
  <2>2. grants[s].fate = "consumed"
    BY DEF Inv, Remembered
  <2>3. now < grants[s].until => memory_cache[x].state = "consumed"
    BY DEF Inv, Remembered
  <2>4. x = k => grants[s].until <= grants[t].at
    BY DEF Inv, Later
  <2> QED
    BY <1>c, <2>1, <2>2, <2>3, <2>4
<1> HIDE DEF k, t
<1>1. Timely'
  BY <1>o DEF Inv, Timely
<1>2. Holding'
  BY <1>w DEF Inv, Holding, k, t
<1>3. OneHolder'
  BY <1>w DEF Inv, OneHolder
<1>4. Later'
  <2> SUFFICES ASSUME NEW g \in Handlers, Working(g)', NEW s \in accepted'[handler'[g].key]
               PROVE  grants'[s].until <= grants'[handler'[g].token].at
    BY DEF Later
  <2>1. s \in accepted[handler[g].key]
    BY <1>w DEF k
  <2>2. grants[s].until <= grants[handler[g].token].at
    BY <1>w, <2>1 DEF Inv, Later
  <2> QED
    BY <1>w, <1>a, <2>1, <2>2 DEF t
<1>5. Remembered'
  <2> SUFFICES ASSUME NEW x \in Keys, NEW s \in accepted'[x]
               PROVE  (/\ grants[s].fate = "consumed"
                       /\ grants[s].at + Retention <= grants[s].until
                       /\ grants[s].at <= stamp[x] + Past + MaxWork
                       /\ stamp[x] <= grants[s].at + Future
                       /\ now < grants[s].until =>
                            /\ memory_cache[x].state = "consumed"
                            /\ memory_cache[x].expires = grants[s].until)'
    BY DEF Remembered
  <2>1. CASE s \in accepted[x]
    <3>1. grants'[s] = grants[s]
      BY <1>a, <2>1 DEF t
    <3>2. now < grants[s].until => memory_cache'[x] = memory_cache[x]
      BY <1>a, <2>1 DEF k
    <3> QED
      BY <2>1, <3>1, <3>2 DEF Inv, Remembered
  <2>2. CASE s \notin accepted[x]
    <3>1. x = k /\ s = t
      BY <2>2 DEF k, t
    <3>2. /\ grants'[s].fate = "consumed" /\ grants'[s].at = grants[s].at
          /\ grants'[s].until = now + Retention
          /\ memory_cache'[k].state = "consumed"
          /\ memory_cache'[k].expires = now + Retention
      BY <2>2, <3>1 DEF k, t
    <3> QED
      BY <1>c, <1>f, <1>n, <3>1, <3>2
  <2> QED
    BY <2>1, <2>2
<1>6. Ordered'
  <2> SUFFICES ASSUME NEW x \in Keys, NEW r \in accepted'[x], NEW s \in accepted'[x], r # s
               PROVE  (grants[r].until <= grants[s].at \/ grants[s].until <= grants[r].at)'
    BY DEF Ordered
  <2>1. \A u \in accepted[x] : u # t /\ grants'[u] = grants[u]
    BY <1>a DEF t
  <2>2. \A u \in accepted'[x] \ accepted[x] : x = k /\ u = t /\ grants'[u].at = grants[u].at
    BY DEF k, t
  <2> QED
    BY <1>a, <2>1, <2>2 DEF Inv, Ordered
<1> QED
  BY <1>t, <1>1, <1>2, <1>3, <1>4, <1>5, <1>6 DEF Inv

(* The registry knows the token of a handler at work, and does as it is told.*)
LEMMA ToldEffect ==
  ASSUME IInv, NEW h \in Handlers, Working(h)
  PROVE  Registry!HeldBy(handler[h].key, handler[h].token)
  BY ClaimStands DEF Registry!HeldBy

LEMMA HonourStep ==
  ASSUME IInv, NEW h \in Handlers, Honour(h)
  PROVE  IInv'
<1> DEFINE k == handler[h].key
           t == handler[h].token
<1>1. Working(h) /\ k \in Keys /\ t \in Tokens
  BY ClaimStands DEF Honour, Working
<1>2. Registry!Settle(k, t, "consumed", Retention)
  BY <1>1, ToldEffect DEF Honour, Told, Registry!Commit
<1>3. /\ accepted' = [accepted EXCEPT ![k] = @ \cup {t}]
      /\ handler' = [handler EXCEPT ![h] = Idle] /\ stamp' = stamp
  BY DEF Honour
<1>4. accepted \in [Keys -> SUBSET Tokens] /\ TypeOK
  BY DEF IInv, TypeOK
<1>5. "consumed" \in Registry!Settled
  BY DEF Registry!Settled
<1> HIDE DEF k, t
<1>6. /\ Registry!TypeOK' /\ now' = now
      /\ memory_cache'[k].state = "consumed"
      /\ memory_cache'[k].expires = now + Retention
      /\ grants'[t].fate = "consumed" /\ grants'[t].at = grants[t].at
      /\ grants'[t].until = now + Retention
      /\ \A s \in Tokens \ {t} : grants'[s] = grants[s]
      /\ \A x \in Keys \ {k} : memory_cache'[x] = memory_cache[x]
  BY <1>1, <1>2, <1>4, <1>5, SettleEffect
<1>7. /\ accepted' \in [Keys -> SUBSET Tokens]
      /\ \A x \in Keys \ {k} : accepted'[x] = accepted[x]
      /\ accepted'[k] = accepted[k] \cup {t}
  BY <1>1, <1>3, <1>4
<1> QED
  BY <1>1, <1>3, <1>6, <1>7, EndStep DEF k, t

LEMMA RefuseStep ==
  ASSUME IInv, NEW h \in Handlers, Refuse(h)
  PROVE  IInv'
<1> DEFINE k == handler[h].key
           t == handler[h].token
<1>1. Working(h) /\ k \in Keys /\ t \in Tokens
  BY ClaimStands DEF Refuse, Working
<1>2. Registry!Settle(k, t, "rejected", Retention)
  BY <1>1, ToldEffect DEF Refuse, Told, Registry!Reject
<1>3. handler' = [handler EXCEPT ![h] = Idle] /\ stamp' = stamp /\ accepted' = accepted
  BY DEF Refuse
<1>4. accepted \in [Keys -> SUBSET Tokens] /\ TypeOK
  BY DEF IInv, TypeOK
<1>5. "rejected" \in Registry!Settled
  BY DEF Registry!Settled
<1> HIDE DEF k, t
<1>6. /\ Registry!TypeOK' /\ now' = now
      /\ \A s \in Tokens \ {t} : grants'[s] = grants[s]
      /\ \A x \in Keys \ {k} : memory_cache'[x] = memory_cache[x]
  BY <1>1, <1>2, <1>4, <1>5, SettleEffect
<1> QED
  BY <1>1, <1>3, <1>4, <1>6, EndStep DEF k, t

LEMMA HandBackStep ==
  ASSUME IInv, NEW h \in Handlers, HandBack(h)
  PROVE  IInv'
<1> DEFINE k == handler[h].key
           t == handler[h].token
<1>1. Working(h) /\ k \in Keys /\ t \in Tokens
  BY ClaimStands DEF HandBack, Working
<1>2. Registry!Release(k, t)
  BY <1>1, ToldEffect DEF HandBack, Told
<1>3. handler' = [handler EXCEPT ![h] = Idle] /\ stamp' = stamp /\ accepted' = accepted
  BY DEF HandBack
<1>4. accepted \in [Keys -> SUBSET Tokens] /\ TypeOK
  BY DEF IInv, TypeOK
<1> HIDE DEF k, t
<1>5. /\ Registry!TypeOK' /\ now' = now
      /\ \A s \in Tokens \ {t} : grants'[s] = grants[s]
      /\ \A x \in Keys \ {k} : memory_cache'[x] = memory_cache[x]
  BY <1>1, <1>2, <1>4, ReleaseEffect
<1> QED
  BY <1>1, <1>3, <1>4, <1>5, EndStep DEF k, t

LEMMA TickStep ==
  ASSUME IInv, Tick
  PROVE  IInv'
<1> USE RetentionType DEF IInv
<1>e. /\ now \in Nat /\ now' = now + 1
      /\ memory_cache' = memory_cache /\ grants' = grants
      /\ stamp' = stamp /\ handler' = handler /\ accepted' = accepted
      /\ \A h \in Handlers : handler[h] # Idle => now < handler[h].since + MaxWork
  BY DEF Tick, Registry!Tick, TypeOK, Registry!TypeOK
<1>t. TypeOK'
  BY <1>e DEF TypeOK, Registry!TypeOK
<1>1. Timely'
  <2>1. ASSUME NEW h \in Handlers, handler[h] # Idle
        PROVE  handler[h].since <= now + 1 /\ now + 1 <= handler[h].since + MaxWork
    BY <1>e, <2>1, HandlerType DEF Inv, Timely
  <2> QED
    BY <1>e, <2>1 DEF Inv, Timely
<1>2. Holding'
  <2>1. \A h \in Handlers : Working(h) => grants[handler[h].token].at <= now + 1
    BY <1>e, ClaimStands
  <2> QED
    BY <1>e, <2>1 DEF Inv, Holding, Working
<1>3. Remembered'
  <2>1. ASSUME NEW k \in Keys, NEW s \in accepted[k], now + 1 < grants[s].until
        PROVE  now < grants[s].until
    BY <1>e, <2>1 DEF TypeOK, Registry!TypeOK, Registry!Grant
  <2> QED
    BY <1>e, <2>1 DEF Inv, Remembered
<1>4. OneHolder' /\ Later' /\ Ordered'
  BY <1>e DEF Inv, OneHolder, Later, Ordered, Working
<1> QED
  BY <1>t, <1>1, <1>2, <1>3, <1>4 DEF Inv

LEMMA InvStep == IInv /\ [Next]_vars => IInv'
<1> SUFFICES ASSUME IInv, [Next]_vars PROVE IInv'
  OBVIOUS
<1>1. CASE UNCHANGED vars
  BY <1>1 DEF vars, IInv, Inv, TypeOK, Registry!TypeOK, Timely, Holding, OneHolder,
              Remembered, Later, Ordered, Working
<1> QED
  BY <1>1, ArriveStep, ClaimStep, DeniedStep, HonourStep, RefuseStep, HandBackStep,
     TickStep DEF Next

-----------------------------------------------------------------------------
(* The strengthening: the claim of a handler at work stands, and what has    *)
(* been honoured is remembered for its retention.                            *)
THEOREM Inductive == Spec => []IInv
  BY InitInv, InvStep, PTL DEF Spec

(* The tables keep their types, two acceptances of one request are a         *)
(* retention apart, and a later one needs a retention that ended while the   *)
(* request was still fresh.                                                  *)
THEOREM HonouredOnceWhileRetained == Spec => []OnceWhileRetained
<1>1. IInv => AcceptancesSpaced
  <2> SUFFICES ASSUME IInv, NEW k \in Keys, NEW s \in accepted[k], NEW t \in accepted[k],
                      s # t
               PROVE  \/ grants[s].at + Retention <= grants[t].at
                      \/ grants[t].at + Retention <= grants[s].at
    BY DEF AcceptancesSpaced
  <2>1. \A u \in accepted[k] : grants[u].at \in Int /\ grants[u].until \in Int
    BY DEF IInv, TypeOK, Registry!TypeOK, Registry!Grant
  <2> QED
    BY <2>1, RetentionType DEF IInv, Inv, Remembered, Ordered
<1>2. IInv => RetainedMeansOnce
  <2> SUFFICES ASSUME IInv, NEW k \in Keys, NEW s \in accepted[k], NEW t \in accepted[k],
                      s # t, grants[s].at < grants[t].at
               PROVE  grants[s].until <= stamp[k] + Past + MaxWork
    BY DEF RetainedMeansOnce
  <2>1. \A u \in accepted[k] : grants[u].at \in Int /\ grants[u].until \in Int
    BY DEF IInv, TypeOK, Registry!TypeOK, Registry!Grant
  <2>2. stamp[k] \in Nat
    BY StampsAssumption DEF IInv, TypeOK
  <2> QED
    BY <2>1, <2>2, RetentionType DEF IInv, Inv, Remembered, Ordered
<1>3. IInv => OnceWhileRetained
  BY <1>1, <1>2 DEF OnceWhileRetained, IInv
<1> QED
  BY <1>3, Inductive, PTL

(* How long the registry would have to remember: with a retention longer     *)
(* than the whole freshness window and the work, no copy of a request is     *)
(* ever honoured again. (The code retains for 300 s what it accepts for 600  *)
(* or 360.)                                                                  *)
THEOREM RetentionThatSuffices ==
  Past + Future + MaxWork < Retention => (Spec => []HonouredOnce)
<1> SUFFICES ASSUME Past + Future + MaxWork < Retention
             PROVE  Spec => []HonouredOnce
  OBVIOUS
<1>1. IInv => HonouredOnce
  <2> SUFFICES ASSUME IInv, NEW k \in Keys
               PROVE  Cardinality(accepted[k]) <= 1
    BY DEF HonouredOnce
  <2>1. stamp[k] \in Nat
    BY StampsAssumption DEF IInv, TypeOK
  <2>2. ASSUME NEW s \in accepted[k], NEW t \in accepted[k]
        PROVE  s = t
    <3>1. \A u \in {s, t} : grants[u].at \in Int /\ grants[u].until \in Int
      BY DEF IInv, TypeOK, Registry!TypeOK, Registry!Grant
    <3> QED
      BY <2>1, <3>1, RetentionType DEF IInv, Inv, Remembered, Ordered
  <2>3. CASE accepted[k] = {}
    BY <2>3, FS_EmptySet
  <2>4. CASE accepted[k] # {}
    <3>1. PICK s : accepted[k] = {s}
      BY <2>2, <2>4
    <3>2. Cardinality({s}) = 1
      BY FS_Singleton
    <3> QED
      BY <3>1, <3>2
  <2> QED
    BY <2>3, <2>4
<1> QED
  BY <1>1, Inductive, PTL

-----------------------------------------------------------------------------
(* The queue of blobs (BlindRelay).                                          *)

(* No task has slept longer than the event loop's delay allows.              *)
TasksOnTime == \A t \in timers : queueNow <= t.due + Slack

(* An id the queue will make is made for the first time, a restart included. *)
Old(i) == i.at < queueNow \/ (i.at = queueNow /\ i.count < blind_counter)
IdsAreOld == (\A i \in DOMAIN pending_blobs : Old(i)) /\ (\A x \in ended : Old(x.id))

QueueInv ==
  /\ Queue!TypeOK /\ Queue!EachHasTimer /\ Queue!LeavesOnce
  /\ TasksOnTime /\ IdsAreOld

LEMMA QueueInitInv == Queue!Init => QueueInv
  BY RelayAssumption
  DEF Queue!Init, QueueInv, Queue!TypeOK, Queue!Pending, Queue!EachHasTimer,
      Queue!LeavesOnce, TasksOnTime, IdsAreOld

LEMMA QueueDestroys ==
  ASSUME QueueInv, NEW how, Queue!Destroy(how), UNCHANGED <<queueNow, blind_counter>>,
         \A i \in DOMAIN how : how[i] \in Queue!Reasons
  PROVE  /\ DOMAIN pending_blobs' = DOMAIN pending_blobs \ DOMAIN how
         /\ \A i \in DOMAIN pending_blobs' : pending_blobs'[i] = pending_blobs[i]
         /\ (timers' \subseteq timers => Queue!TypeOK')
         /\ Queue!LeavesOnce' /\ IdsAreOld'
<1> USE DEF QueueInv, Queue!TypeOK, Queue!Pending
<1> DEFINE ids == DOMAIN how \cap DOMAIN pending_blobs
<1>1. /\ pending_blobs' = Queue!Restrict(pending_blobs, DOMAIN pending_blobs \ ids)
      /\ ended' = ended \cup {[id |-> i, how |-> how[i]] : i \in ids}
  BY DEF Queue!Destroy
<1>2. /\ DOMAIN pending_blobs' = DOMAIN pending_blobs \ DOMAIN how
      /\ \A i \in DOMAIN pending_blobs' : pending_blobs'[i] = pending_blobs[i]
  BY <1>1 DEF Queue!Restrict
<1>3. \A x \in ended' : \/ x \in ended
                        \/ x.id \in ids /\ x = [id |-> x.id, how |-> how[x.id]]
  <2> SUFFICES ASSUME NEW x \in ended', x \notin ended
               PROVE  x.id \in ids /\ x = [id |-> x.id, how |-> how[x.id]]
    OBVIOUS
  <2>1. PICK i \in ids : x = [id |-> i, how |-> how[i]]
    BY <1>1
  <2> QED
    BY <2>1
<1>4. ended' \subseteq [id : Queue!Ids, how : Queue!Reasons]
  <2> SUFFICES ASSUME NEW x \in ended', x \notin ended
               PROVE  x \in [id : Queue!Ids, how : Queue!Reasons]
    OBVIOUS
  <2>1. x.id \in Queue!Ids /\ how[x.id] \in Queue!Reasons
        /\ x = [id |-> x.id, how |-> how[x.id]]
    BY <1>3
  <2> QED
    BY <2>1
<1>5. Queue!LeavesOnce'
  <2>1. ASSUME NEW x \in ended', NEW y \in ended', x.id = y.id
        PROVE  x = y
    BY <1>3, <2>1 DEF Queue!LeavesOnce
  <2>2. ASSUME NEW x \in ended'
        PROVE  x.id \notin DOMAIN pending_blobs'
    BY <1>2, <1>3 DEF Queue!LeavesOnce
  <2> QED
    BY <2>1, <2>2 DEF Queue!LeavesOnce
<1>6. IdsAreOld'
  BY <1>2, <1>3 DEF IdsAreOld, Old
<1> QED
  BY <1>2, <1>4, <1>5, <1>6

LEMMA QueueInvStep == QueueInv /\ [Queue!Next]_queueVars => QueueInv'
<1> SUFFICES ASSUME QueueInv, [Queue!Next]_queueVars PROVE QueueInv'
  OBVIOUS
<1> USE RelayAssumption DEF QueueInv, Queue!TypeOK, Queue!Pending
<1>1. ASSUME NEW b \in Blobs, NEW u \in Users, NEW ttl \in RelayTtls, Queue!Relay(b, u, ttl)
      PROVE  QueueInv'
  <2> DEFINE e == [blob |-> b, receiver |-> u, expires_at |-> queueNow + ttl]
             t == [id |-> Queue!BlobId, due |-> queueNow + ttl]
  <2>n. PICK new : new = Queue!BlobId
    OBVIOUS
  <2>1. /\ pending_blobs' = [i \in DOMAIN pending_blobs \cup {new} |->
                               IF i = new THEN e ELSE pending_blobs[i]]
        /\ timers' = timers \cup {t}
        /\ blind_counter' = blind_counter + 1 /\ blind_counter < MaxCount
        /\ queueNow' = queueNow /\ ended' = ended
    BY <1>1, <2>n DEF Queue!Relay
  <2>2. /\ new \in Queue!Ids /\ new.at = queueNow /\ new.count = blind_counter
    BY <2>n, <2>1 DEF Queue!BlobId, Queue!Ids
  <2>3. e \in Queue!Entries /\ e.expires_at = queueNow + ttl
    <3>1. queueNow + ttl \in Nat
      OBVIOUS
    <3> QED
      BY <3>1 DEF Queue!Entries
  <2>4. t \in [id : Queue!Ids, due : Nat] /\ t.id = new /\ t.due = queueNow + ttl
    BY <2>n, <2>2
  <2> HIDE DEF e, t
  <2>5. blind_counter' \in 0..MaxCount
    BY <2>1
  <2>6. Queue!TypeOK'
    BY <2>1, <2>2, <2>3, <2>4, <2>5
  <2>7. Queue!EachHasTimer'
    BY <2>1, <2>3, <2>4 DEF Queue!EachHasTimer
  <2>8. new \notin DOMAIN pending_blobs /\ \A x \in ended : x.id # new
    BY <2>2 DEF IdsAreOld, Old
  <2>9. Queue!LeavesOnce'
    BY <2>1, <2>8 DEF Queue!LeavesOnce
  <2>10. TasksOnTime'
    BY <2>1, <2>4 DEF TasksOnTime
  <2>11. IdsAreOld'
    <3>1. \A i \in Queue!Ids : Old(i) => Old(i)'
      BY <2>1 DEF Old, Queue!Ids
    <3>2. Old(new)'
      BY <2>1, <2>2 DEF Old
    <3> QED
      BY <2>1, <3>1, <3>2 DEF IdsAreOld
  <2> QED
    BY <2>6, <2>7, <2>9, <2>10, <2>11
<1>2. ASSUME NEW u \in Users, Queue!Fetch(u) \/ Queue!Clear(u)
      PROVE  QueueInv'
  <2>1. PICK how : /\ Queue!Destroy(how) /\ \A i \in DOMAIN how : how[i] \in Queue!Reasons
                   /\ UNCHANGED <<queueNow, blind_counter, timers>>
    <3>1. CASE Queue!Fetch(u)
      <4> DEFINE h == [i \in Queue!QueueOf(u) |->
                        IF i \in Queue!Fetched(u) THEN "handed" ELSE "expired"]
      <4>1. Queue!Destroy(h) /\ UNCHANGED <<queueNow, blind_counter, timers>>
        BY <3>1 DEF Queue!Fetch
      <4>2. \A i \in DOMAIN h : h[i] \in Queue!Reasons
        BY DEF Queue!Reasons
      <4> HIDE DEF h
      <4> QED
        BY <4>1, <4>2
    <3>2. CASE Queue!Clear(u)
      <4> DEFINE h == [i \in Queue!QueueOf(u) |-> "cleared"]
      <4>1. Queue!Destroy(h) /\ UNCHANGED <<queueNow, blind_counter, timers>>
        BY <3>2 DEF Queue!Clear
      <4>2. \A i \in DOMAIN h : h[i] \in Queue!Reasons
        BY DEF Queue!Reasons
      <4> HIDE DEF h
      <4> QED
        BY <4>1, <4>2
    <3> QED
      BY <1>2, <3>1, <3>2
  <2> QED
    BY <2>1, QueueDestroys DEF Queue!EachHasTimer, TasksOnTime
<1>3. ASSUME NEW i \in Queue!Pending, Queue!Delete(i)
      PROVE  QueueInv'
  <2> DEFINE h == [j \in {i} |-> "deleted"]
  <2>1. Queue!Destroy(h) /\ UNCHANGED <<queueNow, blind_counter, timers>>
    BY <1>3 DEF Queue!Delete
  <2>2. \A j \in DOMAIN h : h[j] \in Queue!Reasons
    BY DEF Queue!Reasons
  <2> HIDE DEF h
  <2> QED
    BY <2>1, <2>2, QueueDestroys DEF Queue!EachHasTimer, TasksOnTime
<1>4. ASSUME NEW t \in timers, Queue!Expire(t)
      PROVE  QueueInv'
  <2> DEFINE h == [j \in {t.id} |-> "expired"]
  <2>1. /\ Queue!Destroy(h) /\ UNCHANGED <<queueNow, blind_counter>>
        /\ timers' = timers \ {t}
    BY <1>4 DEF Queue!Expire
  <2>2. (\A j \in DOMAIN h : h[j] \in Queue!Reasons) /\ DOMAIN h = {t.id}
    BY DEF Queue!Reasons
  <2> HIDE DEF h
  <2>3. /\ DOMAIN pending_blobs' = DOMAIN pending_blobs \ {t.id}
        /\ \A i \in DOMAIN pending_blobs' : pending_blobs'[i] = pending_blobs[i]
        /\ Queue!TypeOK' /\ Queue!LeavesOnce' /\ IdsAreOld'
    BY <2>1, <2>2, QueueDestroys
  <2>4. Queue!EachHasTimer'
    BY <2>1, <2>3 DEF Queue!EachHasTimer
  <2> QED
    BY <2>1, <2>3, <2>4 DEF TasksOnTime
<1>5. CASE Queue!Restart
  <2>1. /\ queueNow' = queueNow + 1 /\ queueNow < RelayTime /\ pending_blobs' = << >>
        /\ blind_counter' = 0 /\ timers' = {} /\ ended' = ended
    BY <1>5 DEF Queue!Restart
  <2>2. DOMAIN pending_blobs' = {}
    BY <2>1
  <2>3. \A x \in ended : x.id.at \in Nat
    BY DEF Queue!Ids
  <2> QED
    BY <2>1, <2>2, <2>3
    DEF Queue!EachHasTimer, Queue!LeavesOnce, TasksOnTime, IdsAreOld, Old
<1>6. CASE Queue!Tick
  <2>1. /\ queueNow' = queueNow + 1 /\ queueNow < RelayTime
        /\ \A t \in timers : queueNow < t.due + Slack
        /\ UNCHANGED <<pending_blobs, blind_counter, timers, ended>>
    BY <1>6 DEF Queue!Tick
  <2>2. \A t \in timers : t.due \in Nat
    OBVIOUS
  <2>3. TasksOnTime'
    BY <2>1, <2>2 DEF TasksOnTime
  <2>4. IdsAreOld'
    <3>1. \A i \in Queue!Ids : Old(i) => Old(i)'
      BY <2>1 DEF Old, Queue!Ids
    <3> QED
      BY <2>1, <3>1 DEF IdsAreOld
  <2> QED
    BY <2>1, <2>3, <2>4 DEF Queue!EachHasTimer, Queue!LeavesOnce
<1>7. CASE UNCHANGED queueVars
  BY <1>7 DEF queueVars, Queue!EachHasTimer, Queue!LeavesOnce, TasksOnTime, IdsAreOld, Old
<1> QED
  BY <1>1, <1>2, <1>3, <1>4, <1>5, <1>6, <1>7 DEF Queue!Next

(* The strengthening of EmptiesOnce: a task is never later than the event    *)
(* loop's delay, and an id is new when it is made, also after a restart that *)
(* counts from zero again.                                                   *)
THEOREM QueueInductive == PartSpec => []QueueInv
<1>1. PartInit => QueueInv
  BY QueueInitInv DEF PartInit
<1>2. QueueInv /\ [PartNext]_partVars => QueueInv'
  <2> SUFFICES ASSUME QueueInv, [PartNext]_partVars PROVE QueueInv'
    OBVIOUS
  <2>1. [Queue!Next]_queueVars
    BY DEF PartNext, partVars, queueVars
  <2> QED
    BY <2>1, QueueInvStep
<1> QED
  BY <1>1, <1>2, PTL DEF PartSpec

(* Every blob in RAM has a task that will destroy it in time, none outstays  *)
(* its TTL by more than the event loop's delay, and none leaves twice,       *)
(* whatever fetches, tasks, deletions and restarts meet.                     *)
THEOREM QueueEmptiesOnce == PartSpec => []EmptiesOnce
<1>1. QueueInv => Queue!NoOverstay
  <2> SUFFICES ASSUME QueueInv, NEW i \in DOMAIN pending_blobs
               PROVE  queueNow <= pending_blobs[i].expires_at + Slack
    BY DEF Queue!NoOverstay, Queue!Pending
  <2> QED
    BY DEF QueueInv, Queue!EachHasTimer, TasksOnTime, Queue!Pending
<1>2. QueueInv => EmptiesOnce
  BY <1>1 DEF EmptiesOnce, Queue!EmptiesOnce, QueueInv
<1> QED
  BY <1>2, QueueInductive, PTL

-----------------------------------------------------------------------------
(* The double ratchet. A state is a record of these fields.                  *)
Pairs == [party : {"alice", "bob", "none"}, i : Nat]
Fields ==
  {"root", "dh", "remote", "sending", "receiving", "hks", "hkr", "nhks", "nhkr", "ns", "nr",
   "pn", "skipped"}
StateRecord(s) == DOMAIN s = Fields
StateOf(s, p) ==
  /\ StateRecord(s) /\ s.root \in Seq(SUBSET Pairs)
  /\ s.dh \in Pairs /\ s.dh.party = p
  /\ s.remote \in Pairs /\ (s.remote = Ratchet!NoPair \/ s.remote.party = Ratchet!Other(p))
  /\ s.ns \in Nat /\ s.nr \in Nat /\ s.pn \in Nat
Message(m) ==
  /\ m = [from |-> m.from, header |-> m.header, dh |-> m.dh, pn |-> m.pn, n |-> m.n, key |-> m.key]
  /\ m.from \in Ratchet!Parties /\ m.dh \in Pairs /\ m.dh.party = m.from
  /\ m.pn \in Nat /\ m.n \in Nat

(* The keys that are kept are of messages that have been passed over.        *)
KeysKept(s) ==
  /\ IsFiniteSet(s.skipped) /\ Cardinality(s.skipped) <= MaxSkip
  /\ \A k \in s.skipped :
       /\ k.dh \in Pairs /\ k.n \in Nat
       /\ k.dh.i <= s.remote.i
       /\ k.dh = s.remote => k.n < s.nr
  /\ \A k, l \in s.skipped : k.dh = l.dh /\ k.n = l.n => k = l
  /\ s.remote = Ratchet!NoPair => s.skipped = {} /\ s.nr = 0

(* The number of a message has been passed and its key is not kept.          *)
Used(s, m) ==
  /\ s.remote # Ratchet!NoPair /\ m.dh.i <= s.remote.i
  /\ m.dh = s.remote => m.n < s.nr /\ Ratchet!SkippedFor(s, m) = {}

RatchetTypes ==
  /\ session \in Sessions
  /\ DOMAIN ratchet = Ratchet!Parties
  /\ \A p \in Ratchet!Parties : StateOf(ratchet[p], p) /\ KeysKept(ratchet[p])
  /\ \A m \in network : Message(m)
  /\ read \subseteq network
  /\ \A m \in read : Used(ratchet[Ratchet!Other(m.from)], m)

(* What has been sent is of the chains the sender has had.                   *)
SentInv ==
  \A m \in network :
    LET s == ratchet[m.from] IN
    /\ m.dh.i <= s.dh.i
    /\ m.dh = s.dh /\ s.sending # Ratchet!Empty =>
         m.header = s.hks /\ m.key = <<s.sending, m.n>>

(* In a session with roles the two are level, and one of them may send on    *)
(* the chain of the root they share, or one has turned and the other will    *)
(* when a message of the new chain arrives.                                  *)
Level ==
  LET a == ratchet["alice"]
      b == ratchet["bob"]
  IN /\ a.root = b.root /\ a.remote = b.dh /\ b.remote = a.dh
     /\ a.nhks = b.nhkr /\ b.nhks = a.nhkr
     /\ a.sending = Ratchet!Empty <=> b.sending # Ratchet!Empty
Ahead(p) ==
  LET s == ratchet[p]
      t == ratchet[Ratchet!Other(p)]
  IN /\ s.root = Ratchet!Root(t.root, s.dh, t.dh)
     /\ s.remote = t.dh /\ s.dh.i = t.remote.i + 1
     /\ s.hks = t.nhkr /\ t.nhks = s.nhkr /\ s.nhks = Ratchet!Key("next header", s.root)
     /\ s.sending # Ratchet!Empty /\ t.sending # Ratchet!Empty
InTurns == Level \/ Ahead("alice") \/ Ahead("bob")

(* A header key that was derived before the root.                            *)
Earlier(key, root) ==
  \/ key[1] = "header"
  \/ key[1] = "next header" /\ Len(key[2]) \in Nat /\ Len(key[2]) < Len(root)
(* The keys of a state are derived from its root, its header keys earlier.   *)
Derived(s) ==
  /\ s.remote # Ratchet!NoPair
  /\ s.sending # Ratchet!Empty =>
       s.sending = Ratchet!Key("chain", s.root) /\ Earlier(s.hks, s.root)
  /\ s.nhks # Ratchet!Empty /\ s.nhks[1] = "next header"
  /\ Len(s.nhks[2]) \in Nat /\ Len(s.nhks[2]) <= Len(s.root)

TurnInv ==
  session = "roles" =>
    /\ InTurns
    /\ \A p \in Ratchet!Parties : Derived(ratchet[p])
    /\ \A m \in network :
         LET s == ratchet[Ratchet!Other(m.from)] IN
         /\ Earlier(m.header, ratchet[m.from].root)
         /\ m.dh.i < s.remote.i => ~Ratchet!HeaderOpens(s, m)

(* In a session from a shared secret nobody turns, and every number below    *)
(* the next is accounted for.                                                *)
SharedInv ==
  session # "roles" =>
    /\ \A p \in Ratchet!Parties :
         LET s == ratchet[p]
             t == ratchet[Ratchet!Other(p)]
         IN /\ s.root = <<>> /\ s.dh.i = 0 /\ s.remote \in {Ratchet!NoPair, t.dh}
            /\ s.sending # Ratchet!Empty /\ s.receiving = t.sending
            /\ s.hkr = t.hks /\ s.nr <= t.ns /\ s.pn = 0
            /\ \A k \in s.skipped : k.key = <<s.receiving, k.n>>
    /\ \A m \in network :
         LET s == ratchet[Ratchet!Other(m.from)] IN
         /\ m.pn = 0 /\ m.n < ratchet[m.from].ns
         /\ m.n < s.nr => m \in read \/ m.key \in dropped \/ Ratchet!SkippedFor(s, m) # {}

RatchetInv == RatchetTypes /\ SentInv /\ TurnInv /\ SharedInv

(* What the functions of the ratchet leave of a state.                       *)
LEMMA HeaderReadState ==
  ASSUME NEW s, StateRecord(s), NEW m
  PROVE  LET t == Ratchet!HeaderRead(s, m) IN
         /\ StateRecord(t)
         /\ t.root = s.root /\ t.dh = s.dh /\ t.remote = s.remote /\ t.sending = s.sending
         /\ t.receiving = s.receiving /\ t.hks = s.hks /\ t.nhks = s.nhks /\ t.nhkr = s.nhkr
         /\ t.ns = s.ns /\ t.nr = s.nr /\ t.pn = s.pn /\ t.skipped = s.skipped
         /\ t.hkr = (IF m.header = s.hkr THEN s.hkr ELSE s.nhkr)
BY DEF StateRecord, Fields, Ratchet!HeaderRead

LEMMA SkipToState ==
  ASSUME NEW s, StateRecord(s), NEW n
  PROVE  LET t == Ratchet!SkipTo(s, n) IN
         /\ StateRecord(t)
         /\ t.root = s.root /\ t.dh = s.dh /\ t.remote = s.remote /\ t.sending = s.sending
         /\ t.receiving = s.receiving /\ t.hks = s.hks /\ t.nhks = s.nhks /\ t.nhkr = s.nhkr
         /\ t.ns = s.ns /\ t.pn = s.pn /\ t.hkr = s.hkr
         /\ t.nr = (IF n > s.nr THEN n ELSE s.nr)
         /\ t.skipped = s.skipped
                        \cup {[dh |-> s.remote, n |-> i, key |-> <<s.receiving, i>>] : i \in Ratchet!Kept(s, n)}
BY DEF StateRecord, Fields, Ratchet!SkipTo

LEMMA DhRatchetState ==
  ASSUME NEW s, StateRecord(s), NEW remote, NEW t, t = Ratchet!DhRatchet(s, remote)
  PROVE  /\ StateRecord(t)
         /\ t.root = Ratchet!Root(s.root, s.dh, remote) /\ t.dh = s.dh /\ t.remote = remote
         /\ t.sending = Ratchet!Empty
         /\ t.hks = s.hks /\ t.nhks = s.nhks
         /\ t.hkr = Ratchet!Key("next header", t.root) /\ t.nhkr = Ratchet!Key("next header", t.root)
         /\ t.ns = s.ns /\ t.pn = s.pn /\ t.nr = 0 /\ t.skipped = s.skipped
BY DEF StateRecord, Fields, Ratchet!DhRatchet

LEMMA SendRatchetState ==
  ASSUME NEW s, StateRecord(s), s.dh \in Pairs, s.nhks # Ratchet!Empty
  PROVE  LET t == Ratchet!SendRatchet(s) IN
         /\ StateRecord(t)
         /\ t.dh = [party |-> s.dh.party, i |-> s.dh.i + 1]
         /\ t.root = Ratchet!Root(s.root, t.dh, s.remote)
         /\ t.remote = s.remote /\ t.sending = Ratchet!Key("chain", t.root)
         /\ t.receiving = s.receiving /\ t.hkr = s.hkr /\ t.nhkr = s.nhkr
         /\ t.hks = s.nhks
         /\ t.nhks = Ratchet!Key("next header", t.root)
         /\ t.ns = 0 /\ t.nr = s.nr /\ t.pn = s.ns /\ t.skipped = s.skipped
<1>1. [s.dh EXCEPT !.i = @ + 1] = [party |-> s.dh.party, i |-> s.dh.i + 1]
  BY DEF Pairs
<1> QED
  BY <1>1 DEF StateRecord, Fields, Ratchet!SendRatchet

LEMMA TurnedState ==
  ASSUME NEW s, StateRecord(s), NEW m
  PROVE  LET t == Ratchet!Turned(s, m)
             u == Ratchet!SkipTo(s, m.pn)
         IN /\ Ratchet!NewKey(s, m) => t = Ratchet!DhRatchet(u, m.dh) /\ StateRecord(u)
            /\ ~Ratchet!NewKey(s, m) =>
                 /\ StateRecord(t)
                 /\ t.root = s.root /\ t.dh = s.dh /\ t.remote = m.dh /\ t.sending = s.sending
                 /\ t.receiving = s.receiving /\ t.hks = s.hks /\ t.hkr = s.hkr
                 /\ t.nhks = s.nhks /\ t.nhkr = s.nhkr
                 /\ t.ns = s.ns /\ t.nr = s.nr /\ t.pn = s.pn /\ t.skipped = s.skipped
<1>1. StateRecord(Ratchet!SkipTo(s, m.pn))
  BY SkipToState
<1> QED
  BY <1>1 DEF StateRecord, Fields, Ratchet!Turned

LEMMA AdvancedState ==
  ASSUME NEW s, StateRecord(s), NEW m
  PROVE  LET t == Ratchet!Advanced(s, m)
             u == Ratchet!SkipTo(s, m.n)
         IN /\ StateRecord(t)
            /\ t.root = s.root /\ t.dh = s.dh /\ t.remote = s.remote /\ t.sending = s.sending
            /\ t.receiving = s.receiving /\ t.hks = s.hks /\ t.hkr = s.hkr
            /\ t.nhks = s.nhks /\ t.nhkr = s.nhkr
            /\ t.ns = s.ns /\ t.nr = m.n + 1 /\ t.pn = s.pn /\ t.skipped = u.skipped
<1>1. LET u == Ratchet!SkipTo(s, m.n) IN
      /\ StateRecord(u)
      /\ u.root = s.root /\ u.dh = s.dh /\ u.remote = s.remote /\ u.sending = s.sending
      /\ u.receiving = s.receiving /\ u.hks = s.hks /\ u.nhks = s.nhks /\ u.nhkr = s.nhkr
      /\ u.ns = s.ns /\ u.pn = s.pn /\ u.hkr = s.hkr
  BY SkipToState
<1> QED
  BY <1>1 DEF StateRecord, Fields, Ratchet!Advanced

LEMMA TakeSkippedState ==
  ASSUME NEW s, StateRecord(s), NEW k
  PROVE  LET t == Ratchet!TakeSkipped(s, k) IN
         /\ StateRecord(t)
         /\ t.root = s.root /\ t.dh = s.dh /\ t.remote = s.remote /\ t.sending = s.sending
         /\ t.receiving = s.receiving /\ t.hks = s.hks /\ t.hkr = s.hkr
         /\ t.nhks = s.nhks /\ t.nhkr = s.nhkr
         /\ t.ns = s.ns /\ t.nr = s.nr /\ t.pn = s.pn /\ t.skipped = s.skipped \ {k}
BY DEF StateRecord, Fields, Ratchet!TakeSkipped

-----------------------------------------------------------------------------
(* Keys are kept while there is room, and a number once used stays used.     *)
LEMMA RatchetCardinality == ASSUME NEW S PROVE Ratchet!Cardinality(S) = Cardinality(S)
BY DEF Ratchet!Cardinality, Cardinality

LEMMA RoomForKept ==
  ASSUME NEW s, s.nr \in Nat, IsFiniteSet(s.skipped), Cardinality(s.skipped) <= MaxSkip, NEW n \in Nat
  PROVE  LET new == {[dh |-> s.remote, n |-> i, key |-> <<s.receiving, i>>] : i \in Ratchet!Kept(s, n)} IN
         IsFiniteSet(s.skipped \cup new) /\ Cardinality(s.skipped \cup new) <= MaxSkip
<1> DEFINE c == Cardinality(s.skipped)
           K == Ratchet!Kept(s, n)
           new == {[dh |-> s.remote, n |-> i, key |-> <<s.receiving, i>>] : i \in K}
<1>1. c \in Nat /\ MaxSkip \in Nat /\ c <= MaxSkip
  BY FS_CardinalityType, RatchetAssumption
<1>2. K \subseteq s.nr..(s.nr + (MaxSkip - c) - 1)
  <2> SUFFICES ASSUME NEW i \in K PROVE i \in s.nr..(s.nr + (MaxSkip - c) - 1)
    OBVIOUS
  <2>1. i \in s.nr..(n - 1) /\ c + (i - s.nr) < MaxSkip
    BY RatchetCardinality DEF Ratchet!Kept, Ratchet!Skipped
  <2> HIDE DEF c, K
  <2> QED
    BY <1>1, <2>1
<1>3. /\ IsFiniteSet(s.nr..(s.nr + (MaxSkip - c) - 1))
      /\ Cardinality(s.nr..(s.nr + (MaxSkip - c) - 1)) = MaxSkip - c
  <2> DEFINE a == s.nr
             b == s.nr + (MaxSkip - c) - 1
  <2>1. a \in Int /\ b \in Int /\ (a > b => MaxSkip - c = 0) /\ (~(a > b) => b - a + 1 = MaxSkip - c)
    BY <1>1
  <2> HIDE DEF a, b
  <2>2. IsFiniteSet(a..b) /\ Cardinality(a..b) = (IF a > b THEN 0 ELSE b - a + 1)
    BY <2>1, FS_Interval
  <2>3. IsFiniteSet(a..b) /\ Cardinality(a..b) = MaxSkip - c
    BY <2>1, <2>2
  <2> QED
    BY <2>3 DEF a, b
<1>4. IsFiniteSet(K) /\ Cardinality(K) \in Nat /\ Cardinality(K) <= MaxSkip - c
  BY <1>2, <1>3, FS_Subset, FS_CardinalityType
<1>5. IsFiniteSet(new) /\ Cardinality(new) <= Cardinality(K)
  <2> HIDE DEF K
  <2> DEFINE f == [i \in K |-> [dh |-> s.remote, n |-> i, key |-> <<s.receiving, i>>]]
  <2>1. f \in Surjection(K, new)
    BY DEF Surjection
  <2> HIDE DEF f, new
  <2> QED
    BY <1>4, <2>1, FS_Surjection
<1>6. IsFiniteSet(s.skipped \cup new)
      /\ Cardinality(s.skipped \cup new) = c + Cardinality(new) - Cardinality(s.skipped \cap new)
  <2> HIDE DEF new
  <2> QED
    BY <1>5, FS_Union
<1>7. Cardinality(new) \in Nat /\ Cardinality(s.skipped \cap new) \in Nat
  <2> HIDE DEF new
  <2> QED
    BY <1>5, FS_CardinalityType, FS_Subset
<1> HIDE DEF c, K
<1>8. Cardinality(s.skipped \cup new) <= MaxSkip
  BY <1>1, <1>4, <1>5, <1>6, <1>7
<1> QED
  BY <1>6, <1>8 DEF K

LEMMA SkipToKeeps ==
  ASSUME NEW s, StateRecord(s), s.nr \in Nat, KeysKept(s), s.remote # Ratchet!NoPair,
         s.remote \in Pairs, NEW n \in Nat
  PROVE  LET t == Ratchet!SkipTo(s, n) IN
         /\ KeysKept(t)
         /\ \A k \in t.skipped : k \in s.skipped \/ (k.dh = s.remote /\ k.n < n)
         /\ \A m : m.n \in Nat /\ Used(s, m) => Used(t, m)
<1> DEFINE new == {[dh |-> s.remote, n |-> i, key |-> <<s.receiving, i>>] : i \in Ratchet!Kept(s, n)}
<1> DEFINE nr == IF n > s.nr THEN n ELSE s.nr
<1>1. PICK t : t = Ratchet!SkipTo(s, n)
  OBVIOUS
<1>2. t.remote = s.remote /\ t.nr = nr /\ t.skipped = s.skipped \cup new
  BY <1>1, SkipToState
<1>3. IsFiniteSet(t.skipped) /\ Cardinality(t.skipped) <= MaxSkip
  BY <1>2, RoomForKept DEF KeysKept
<1>4. nr \in Nat /\ s.nr <= nr
  OBVIOUS
<1>5. \A k \in new : k.dh = s.remote /\ k.n \in s.nr..(n - 1) /\ k.n < nr
  BY DEF Ratchet!Kept, Ratchet!Skipped
<1>6. \A k, l \in new : k.n = l.n => k = l
  OBVIOUS
<1> HIDE DEF new, nr
<1>7. \A k \in t.skipped : /\ k.dh \in Pairs /\ k.n \in Nat
                           /\ k.dh.i <= t.remote.i
                           /\ k.dh = t.remote => k.n < t.nr
  <2> TAKE k \in t.skipped
  <2>1. CASE k \in s.skipped
    <3>1. k.dh \in Pairs /\ k.n \in Nat /\ k.dh.i <= s.remote.i /\ (k.dh = s.remote => k.n < s.nr)
      BY <2>1 DEF KeysKept
    <3> QED
      BY <3>1, <1>2, <1>4
  <2>2. CASE k \in new
    BY <2>2, <1>2, <1>5 DEF Pairs
  <2> QED
    BY <2>1, <2>2, <1>2
<1>8. \A k, l \in t.skipped : k.dh = l.dh /\ k.n = l.n => k = l
  <2> SUFFICES ASSUME NEW k \in t.skipped, NEW l \in t.skipped, k.dh = l.dh, k.n = l.n
               PROVE  k = l
    OBVIOUS
  <2>1. \A x \in s.skipped : x.n \in Nat /\ (x.dh = s.remote => x.n < s.nr)
    BY DEF KeysKept
  <2>2. k \in s.skipped <=> l \in s.skipped
    BY <2>1, <1>2, <1>5
  <2>3. CASE k \in s.skipped
    BY <2>2, <2>3 DEF KeysKept
  <2>4. CASE k \notin s.skipped
    BY <2>2, <2>4, <1>2, <1>6
  <2> QED
    BY <2>3, <2>4
<1>9. KeysKept(t)
  BY <1>2, <1>3, <1>7, <1>8 DEF KeysKept
<1>10. \A k \in t.skipped : k \in s.skipped \/ (k.dh = s.remote /\ k.n < n)
  BY <1>2, <1>5
<1>11. ASSUME NEW m, m.n \in Nat, Used(s, m) PROVE Used(t, m)
  <2>1. t.remote # Ratchet!NoPair /\ m.dh.i <= t.remote.i
    BY <1>2, <1>11 DEF Used
  <2>2. ASSUME m.dh = t.remote PROVE m.n < t.nr /\ Ratchet!SkippedFor(t, m) = {}
    <3>1. m.n < s.nr /\ Ratchet!SkippedFor(s, m) = {}
      BY <1>2, <1>11, <2>2 DEF Used
    <3>2. ASSUME NEW k \in t.skipped, k.dh = m.dh, k.n = m.n PROVE FALSE
      BY <3>1, <3>2, <1>2, <1>5 DEF Ratchet!SkippedFor
    <3> QED
      BY <3>1, <3>2, <1>2, <1>4, <1>11 DEF Ratchet!SkippedFor
  <2> QED
    BY <2>1, <2>2 DEF Used
<1> QED
  BY <1>1, <1>9, <1>10, <1>11

(* A step of the receiver: the counters of its chain move on.                *)
Moved(s, t) ==
  /\ KeysKept(t) /\ t.nr \in Nat
  /\ \A m : m.dh \in Pairs /\ m.n \in Nat /\ Used(s, m) => Used(t, m)

LEMMA TurnKeeps ==
  ASSUME NEW s, StateRecord(s), s.nr \in Nat, KeysKept(s), s.remote \in Pairs,
         NEW m, m.pn \in Nat, m.dh \in Pairs, Ratchet!NewKey(s, m), s.remote.i < m.dh.i
  PROVE  Moved(s, Ratchet!Turned(s, m)) /\ Ratchet!Turned(s, m).nr = 0
<1>1. PICK u : u = Ratchet!SkipTo(s, m.pn)
  OBVIOUS
<1>2. s.remote # Ratchet!NoPair
  BY DEF Ratchet!NewKey
<1>3. KeysKept(u) /\ (\A x : x.n \in Nat /\ Used(s, x) => Used(u, x))
  BY <1>1, <1>2, SkipToKeeps
<1>4. StateRecord(u) /\ u.remote = s.remote
  BY <1>1, SkipToState
<1>5. PICK t : t = Ratchet!DhRatchet(u, m.dh)
  OBVIOUS
<1>6. t = Ratchet!Turned(s, m)
  BY <1>1, <1>5, TurnedState
<1>7. t.remote = m.dh /\ t.nr = 0 /\ t.skipped = u.skipped
  BY <1>4, <1>5 DEF Ratchet!DhRatchet, StateRecord, Fields
<1>8. m.dh # Ratchet!NoPair /\ m.dh.i \in Nat /\ s.remote.i \in Nat
  BY DEF Pairs, Ratchet!NoPair
<1>9. \A k \in u.skipped : k.dh \in Pairs /\ k.dh.i \in Nat /\ k.dh.i <= s.remote.i
  BY <1>3, <1>4 DEF KeysKept, Pairs
<1>10. \A k \in t.skipped : k.dh.i <= m.dh.i /\ k.dh # m.dh
  BY <1>7, <1>8, <1>9
<1>11. KeysKept(t)
  BY <1>3, <1>7, <1>8, <1>10 DEF KeysKept
<1>12. ASSUME NEW x, Used(u, x), x.dh \in Pairs PROVE Used(t, x)
  BY <1>4, <1>7, <1>8, <1>12 DEF Used, Pairs
<1> QED
  BY <1>3, <1>6, <1>7, <1>11, <1>12 DEF Moved

LEMMA RecordKeeps ==
  ASSUME NEW s, StateRecord(s), s.nr \in Nat, KeysKept(s),
         NEW m, m.dh \in Pairs, ~Ratchet!NewKey(s, m)
  PROVE  Moved(s, Ratchet!Turned(s, m)) /\ Ratchet!Turned(s, m).nr = s.nr
<1>1. PICK t : t = Ratchet!Turned(s, m)
  OBVIOUS
<1>2. t.remote = m.dh /\ t.nr = s.nr /\ t.skipped = s.skipped
  BY <1>1, TurnedState
<1>3. CASE s.remote = m.dh
  BY <1>1, <1>2, <1>3 DEF Moved, KeysKept, Used, Ratchet!SkippedFor
<1>4. CASE s.remote = Ratchet!NoPair
  <2>1. s.skipped = {} /\ s.nr = 0
    BY <1>4 DEF KeysKept
  <2>2. KeysKept(t)
    BY <1>2, <2>1 DEF KeysKept
  <2>3. \A x : ~Used(s, x)
    BY <1>4 DEF Used
  <2> QED
    BY <1>1, <1>2, <2>2, <2>3 DEF Moved
<1> QED
  BY <1>3, <1>4 DEF Ratchet!NewKey

LEMMA AdvanceKeeps ==
  ASSUME NEW s, StateRecord(s), s.nr \in Nat, KeysKept(s), s.remote \in Pairs,
         s.remote # Ratchet!NoPair,
         NEW m, m.n \in Nat, m.dh = s.remote, s.nr <= m.n, Ratchet!SkippedFor(s, m) = {}
  PROVE  Moved(s, Ratchet!Advanced(s, m)) /\ Used(Ratchet!Advanced(s, m), m)
<1>1. PICK u : u = Ratchet!SkipTo(s, m.n)
  OBVIOUS
<1>2. /\ KeysKept(u)
      /\ \A k \in u.skipped : k \in s.skipped \/ (k.dh = s.remote /\ k.n < m.n)
      /\ \A x : x.n \in Nat /\ Used(s, x) => Used(u, x)
  BY <1>1, SkipToKeeps
<1>3. u.remote = s.remote /\ u.nr = m.n
  BY <1>1, SkipToState
<1>4. PICK t : t = Ratchet!Advanced(s, m)
  OBVIOUS
<1>5. t.remote = s.remote /\ t.nr = m.n + 1 /\ t.skipped = u.skipped
  BY <1>1, <1>4, AdvancedState
<1>6. KeysKept(t)
  BY <1>2, <1>3, <1>5 DEF KeysKept
<1>7. ASSUME NEW x, x.n \in Nat, Used(u, x) PROVE Used(t, x)
  BY <1>3, <1>5, <1>7 DEF Used, Ratchet!SkippedFor
<1>8. Ratchet!SkippedFor(t, m) = {}
  <2> SUFFICES ASSUME NEW k \in u.skipped, k.dh = m.dh, k.n = m.n PROVE FALSE
    BY <1>5 DEF Ratchet!SkippedFor
  <2>1. k \notin s.skipped
    BY DEF Ratchet!SkippedFor
  <2> QED
    BY <1>2, <2>1
<1>9. Used(t, m)
  BY <1>5, <1>8 DEF Used, Pairs
<1> QED
  BY <1>2, <1>4, <1>5, <1>6, <1>7, <1>9 DEF Moved

LEMMA TakeKeeps ==
  ASSUME NEW s, StateRecord(s), s.nr \in Nat, KeysKept(s), s.remote \in Pairs,
         NEW m, m.n \in Nat, NEW k \in Ratchet!SkippedFor(s, m)
  PROVE  Moved(s, Ratchet!TakeSkipped(s, k)) /\ Used(Ratchet!TakeSkipped(s, k), m)
<1>1. PICK t : t = Ratchet!TakeSkipped(s, k)
  OBVIOUS
<1>2. t.remote = s.remote /\ t.nr = s.nr /\ t.skipped = s.skipped \ {k}
  BY <1>1, TakeSkippedState
<1>3. k \in s.skipped /\ k.dh = m.dh /\ k.n = m.n
  BY DEF Ratchet!SkippedFor
<1>4. IsFiniteSet(t.skipped) /\ Cardinality(t.skipped) <= MaxSkip
  <2>1. t.skipped \subseteq s.skipped /\ IsFiniteSet(s.skipped) /\ Cardinality(s.skipped) <= MaxSkip
    BY <1>2 DEF KeysKept
  <2>2. IsFiniteSet(t.skipped) /\ Cardinality(t.skipped) <= Cardinality(s.skipped)
    BY <2>1, FS_Subset
  <2>3. Cardinality(t.skipped) \in Nat /\ Cardinality(s.skipped) \in Nat /\ MaxSkip \in Nat
    BY <2>1, <2>2, FS_CardinalityType, RatchetAssumption
  <2> QED
    BY <2>1, <2>2, <2>3
<1>5. KeysKept(t)
  BY <1>2, <1>4 DEF KeysKept
<1>6. \A x : Used(s, x) => Used(t, x)
  BY <1>2 DEF Used, Ratchet!SkippedFor
<1>7. Used(t, m)
  <2>1. s.remote # Ratchet!NoPair /\ m.dh.i <= s.remote.i /\ (m.dh = s.remote => m.n < s.nr)
    BY <1>3 DEF KeysKept
  <2>2. Ratchet!SkippedFor(t, m) = {}
    BY <1>2, <1>3 DEF KeysKept, Ratchet!SkippedFor
  <2> QED
    BY <1>2, <2>1, <2>2 DEF Used
<1> QED
  BY <1>1, <1>2, <1>5, <1>6, <1>7 DEF Moved

-----------------------------------------------------------------------------
(* Roots, keys and the two parties.                                          *)
LEMMA TwoParties ==
  ASSUME NEW p \in Ratchet!Parties
  PROVE  /\ Ratchet!Other(p) \in Ratchet!Parties /\ Ratchet!Other(p) # p
         /\ Ratchet!Other(Ratchet!Other(p)) = p
         /\ \A q \in Ratchet!Parties : q = p \/ q = Ratchet!Other(p)
BY DEF Ratchet!Parties, Ratchet!Other

LEMMA KeyFacts ==
  ASSUME NEW l, NEW r
  PROVE  /\ Ratchet!Key(l, r) # Ratchet!Empty
         /\ Ratchet!Key(l, r)[1] = l /\ Ratchet!Key(l, r)[2] = r
BY DEF Ratchet!Key, Ratchet!Empty

LEMMA RootFacts ==
  ASSUME NEW r \in Seq(SUBSET Pairs), NEW a \in Pairs, NEW b \in Pairs
  PROVE  /\ Ratchet!Root(r, a, b) \in Seq(SUBSET Pairs)
         /\ Len(r) \in Nat /\ Len(Ratchet!Root(r, a, b)) = Len(r) + 1
         /\ Ratchet!Root(r, a, b) = Ratchet!Root(r, b, a)
<1>1. {a, b} \in SUBSET Pairs /\ {a, b} = {b, a}
  OBVIOUS
<1> QED
  BY <1>1 DEF Ratchet!Root

LEMMA EarlierStays ==
  ASSUME NEW key, NEW r, NEW s, Earlier(key, r), Len(r) \in Nat, Len(s) \in Nat, Len(r) <= Len(s)
  PROVE  Earlier(key, s)
<1>1. CASE key[1] = "header"
  BY <1>1 DEF Earlier
<1>2. CASE key[1] = "next header" /\ Len(key[2]) \in Nat /\ Len(key[2]) < Len(r)
  <2>1. \A i \in Nat : i < Len(r) => i < Len(s)
    OBVIOUS
  <2> QED
    BY <1>2, <2>1 DEF Earlier
<1> QED
  BY <1>1, <1>2 DEF Earlier

(* A step that leaves the chains as they are, but for the header key in use. *)
Quiet(s, t) ==
  /\ t.root = s.root /\ t.dh = s.dh /\ t.remote = s.remote /\ t.sending = s.sending
  /\ t.hks = s.hks /\ t.nhks = s.nhks /\ t.nhkr = s.nhkr /\ t.hkr \in {s.hkr, s.nhkr}

LEMMA QuietTurnInv ==
  ASSUME RatchetTypes, SentInv, TurnInv, NEW p \in Ratchet!Parties, NEW t, Quiet(ratchet[p], t),
         ratchet' = [ratchet EXCEPT ![p] = t], network' = network, session' = session
  PROVE  SentInv' /\ TurnInv'
<1>1. \A q \in Ratchet!Parties : Quiet(ratchet[q], ratchet'[q])
  BY DEF RatchetTypes, Quiet
<1>2. {"alice", "bob"} \subseteq Ratchet!Parties
  BY DEF Ratchet!Parties
<1>3. \A m \in network : m.from \in Ratchet!Parties
  BY DEF RatchetTypes, Message
<1>4. SentInv'
  BY <1>1, <1>3 DEF SentInv, Quiet
<1>5. ASSUME session = "roles" PROVE InTurns'
  <2>1. InTurns
    BY <1>5 DEF TurnInv
  <2>2. Level => Level'
    BY <1>1, <1>2 DEF Level, Quiet
  <2>3. ASSUME NEW q \in Ratchet!Parties, Ahead(q) PROVE Ahead(q)'
    BY <1>1, <2>3, TwoParties DEF Ahead, Quiet
  <2> QED
    BY <2>1, <2>2, <2>3, <1>2 DEF InTurns
<1>6. ASSUME session = "roles" PROVE TurnInv'
  <2>1. \A q \in Ratchet!Parties : Derived(ratchet'[q])
    <3>1. ASSUME NEW q \in Ratchet!Parties PROVE Derived(ratchet'[q])
      <4>1. Derived(ratchet[q]) /\ Quiet(ratchet[q], ratchet'[q])
        BY <1>1, <1>6 DEF TurnInv
      <4> QED
        BY <4>1 DEF Derived, Quiet
    <3> QED
      BY <3>1
  <2>2. ASSUME NEW m \in network
        PROVE  LET s == ratchet'[Ratchet!Other(m.from)] IN
               /\ Earlier(m.header, ratchet'[m.from].root)
               /\ m.dh.i < s.remote.i => ~Ratchet!HeaderOpens(s, m)
    <3>1. m.from \in Ratchet!Parties /\ Ratchet!Other(m.from) \in Ratchet!Parties
      BY <1>3, TwoParties
    <3>2. Quiet(ratchet[m.from], ratchet'[m.from])
          /\ Quiet(ratchet[Ratchet!Other(m.from)], ratchet'[Ratchet!Other(m.from)])
      BY <1>1, <3>1
    <3> QED
      BY <3>2, <1>6 DEF TurnInv, Quiet, Ratchet!HeaderOpens
  <2> QED
    BY <1>5, <1>6, <2>1, <2>2 DEF TurnInv
<1>7. TurnInv'
  BY <1>6 DEF TurnInv
<1> QED
  BY <1>4, <1>7

LEMMA EarlierIsOther ==
  ASSUME NEW key, NEW r, Earlier(key, r)
  PROVE  key # Ratchet!Key("next header", r)
<1>1. Ratchet!Key("next header", r)[1] = "next header" /\ Ratchet!Key("next header", r)[2] = r
  BY KeyFacts
<1>2. \A n \in Nat : ~(n < n)
  OBVIOUS
<1>3. key[1] = "header" \/ key[2] # r
  BY <1>2 DEF Earlier
<1> QED
  BY <1>1, <1>3

LEMMA DerivedAfterTurn ==
  ASSUME NEW s, NEW t, Derived(s), Len(s.root) \in Nat, Len(t.root) = Len(s.root) + 1,
         t.remote # Ratchet!NoPair, t.sending = Ratchet!Empty, t.nhks = s.nhks
  PROVE  Derived(t)
<1>1. Len(s.nhks[2]) \in Nat /\ Len(s.nhks[2]) <= Len(s.root)
  BY DEF Derived
<1>2. Len(t.nhks[2]) \in Nat /\ Len(t.nhks[2]) <= Len(t.root)
  BY <1>1
<1> QED
  BY <1>2 DEF Derived

LEMMA EarlierAfterTurn ==
  ASSUME NEW key, NEW r, NEW s, Earlier(key, r), Len(r) \in Nat, Len(s) = Len(r) + 1
  PROVE  Earlier(key, s)
BY EarlierStays

LEMMA PairIsSome ==
  ASSUME NEW p \in Ratchet!Parties, NEW x, x.party = p
  PROVE  x # Ratchet!NoPair
BY DEF Ratchet!NoPair, Ratchet!Parties

(* A header that opens with a key not seen before is of the chain the other  *)
(* party has turned to.                                                      *)
LEMMA NewKeyIsTurn ==
  ASSUME RatchetTypes, SentInv, TurnInv, session = "roles", NEW p \in Ratchet!Parties,
         NEW m \in network, m.from = Ratchet!Other(p), Ratchet!HeaderOpens(ratchet[p], m),
         m.dh # ratchet[p].remote
  PROVE  /\ Ahead(Ratchet!Other(p)) /\ m.dh = ratchet[Ratchet!Other(p)].dh
         /\ ratchet[p].remote.i < m.dh.i
<1> DEFINE q == Ratchet!Other(p)
           s == ratchet[p]
           t == ratchet[q]
<1>1. q \in Ratchet!Parties /\ q # p /\ Ratchet!Other(q) = p
  BY TwoParties
<1>2. /\ s.remote \in Pairs /\ s.remote.party = q /\ s.dh \in Pairs
      /\ t.dh \in Pairs /\ t.dh.party = q /\ m.dh \in Pairs /\ m.dh.party = q
  BY <1>1 DEF RatchetTypes, StateOf, Message, TurnInv, Derived
<1>3. m.dh.i <= t.dh.i /\ ~(m.dh.i < s.remote.i)
  BY <1>1 DEF SentInv, TurnInv
<1>4. m.dh.i \in Nat /\ s.remote.i \in Nat /\ t.dh.i \in Nat /\ m.dh.i # s.remote.i
  BY <1>2 DEF Pairs
<1>5. s.remote # t.dh
  BY <1>3, <1>4
<1>6. Ahead(q)
  <2>1. InTurns
    BY DEF TurnInv
  <2>2. ~Level
    BY <1>1, <1>5 DEF Level, Ratchet!Parties
  <2>3. ~Ahead(p)
    BY <1>5 DEF Ahead
  <2> QED
    BY <2>1, <2>2, <2>3, TwoParties DEF InTurns, Ratchet!Parties, Ratchet!Other
<1>7. t.dh.i = s.remote.i + 1
  BY <1>1, <1>6 DEF Ahead
<1>8. m.dh.i = t.dh.i
  BY <1>3, <1>4, <1>7
<1> QED
  BY <1>2, <1>3, <1>4, <1>6, <1>8 DEF Pairs

LEMMA TurnTurnInv ==
  ASSUME RatchetTypes, SentInv, TurnInv, session = "roles", NEW p \in Ratchet!Parties,
         NEW m \in network, m.from = Ratchet!Other(p), Ratchet!HeaderOpens(ratchet[p], m),
         m.dh # ratchet[p].remote,
         NEW t, t.root = Ratchet!Root(ratchet[p].root, ratchet[p].dh, m.dh),
         t.dh = ratchet[p].dh, t.remote = m.dh, t.sending = Ratchet!Empty,
         t.nhks = ratchet[p].nhks,
         t.hkr = Ratchet!Key("next header", t.root), t.nhkr = Ratchet!Key("next header", t.root),
         ratchet' = [ratchet EXCEPT ![p] = t], network' = network, session' = session
  PROVE  SentInv' /\ TurnInv'
<1> DEFINE s == ratchet[p]
<1>1. PICK q : q = Ratchet!Other(p)
  OBVIOUS
<1>2. q \in Ratchet!Parties /\ q # p /\ Ratchet!Other(q) = p /\ (\A x \in Ratchet!Parties : x \in {p, q})
  BY <1>1, TwoParties
<1>3. PICK o : o = ratchet[q]
  OBVIOUS
<1>4. ratchet'[p] = t /\ ratchet'[q] = o
  BY <1>2, <1>3 DEF RatchetTypes
<1>5. Ahead(q) /\ m.dh = o.dh /\ s.remote.i < o.dh.i
  BY <1>1, <1>3, NewKeyIsTurn
<1>6. /\ o.root = Ratchet!Root(s.root, o.dh, s.dh) /\ o.remote = s.dh
      /\ o.nhkr = s.nhks /\ o.nhks = Ratchet!Key("next header", o.root)
      /\ o.sending # Ratchet!Empty /\ s.nhks = o.nhkr
  BY <1>2, <1>3, <1>5 DEF Ahead
<1>7. /\ s.root \in Seq(SUBSET Pairs) /\ s.dh \in Pairs
      /\ o.dh \in Pairs /\ o.dh.party = q /\ o.root \in Seq(SUBSET Pairs)
  BY <1>2, <1>3 DEF RatchetTypes, StateOf
<1>8. t.root = o.root /\ Len(s.root) \in Nat /\ Len(o.root) = Len(s.root) + 1
  BY <1>5, <1>6, <1>7, RootFacts
<1>9. SentInv'
  <2> SUFFICES ASSUME NEW x \in network
               PROVE  LET y == ratchet'[x.from] IN
                      /\ x.dh.i <= y.dh.i
                      /\ x.dh = y.dh /\ y.sending # Ratchet!Empty =>
                           x.header = y.hks /\ x.key = <<y.sending, x.n>>
    BY DEF SentInv
  <2>1. x.from \in {p, q}
    BY <1>2 DEF RatchetTypes, Message
  <2> QED
    BY <2>1, <1>3, <1>4 DEF SentInv
<1>10. Level'
  <2>1. /\ t.root = o.root /\ t.remote = o.dh /\ o.remote = t.dh
        /\ t.nhks = o.nhkr /\ o.nhks = t.nhkr
        /\ t.sending = Ratchet!Empty /\ o.sending # Ratchet!Empty
    BY <1>5, <1>6, <1>8
  <2>2. (p = "alice" /\ q = "bob") \/ (p = "bob" /\ q = "alice")
    BY <1>1 DEF Ratchet!Parties, Ratchet!Other
  <2> QED
    BY <2>1, <2>2, <1>4 DEF Level
<1>11. \A x \in Ratchet!Parties : Derived(ratchet'[x])
  <2>1. Derived(o) /\ Derived(s)
    BY <1>2, <1>3 DEF TurnInv
  <2>2. t.remote # Ratchet!NoPair
    BY <1>2, <1>5, <1>7, PairIsSome
  <2>3. Len(t.root) = Len(s.root) + 1
    BY <1>8
  <2>4. Derived(t)
    BY <1>8, <2>1, <2>2, <2>3, DerivedAfterTurn
  <2> QED
    BY <1>2, <1>4, <2>1, <2>4
<1>12. ASSUME NEW x \in network
       PROVE  LET y == ratchet'[Ratchet!Other(x.from)] IN
              /\ Earlier(x.header, ratchet'[x.from].root)
              /\ x.dh.i < y.remote.i => ~Ratchet!HeaderOpens(y, x)
  <2>1. x.from \in {p, q}
    BY <1>2 DEF RatchetTypes, Message
  <2>2. CASE x.from = p
    <3>1. Earlier(x.header, s.root) /\ (x.dh.i < o.remote.i => ~Ratchet!HeaderOpens(o, x))
      BY <1>1, <1>3, <2>2 DEF TurnInv
    <3>2. Len(s.root) \in Nat /\ Len(t.root) = Len(s.root) + 1
      BY <1>8
    <3>3. Earlier(x.header, t.root)
      BY <3>1, <3>2, EarlierAfterTurn
    <3> QED
      BY <3>1, <3>3, <2>2, <1>1, <1>4
  <2>3. CASE x.from = q
    <3>1. Earlier(x.header, o.root)
      BY <1>3, <2>3 DEF TurnInv
    <3>2. t.hkr = Ratchet!Key("next header", o.root) /\ t.nhkr = t.hkr
      BY <1>8
    <3>3. x.header # t.hkr
      BY <3>1, <3>2, EarlierIsOther
    <3>4. ~Ratchet!HeaderOpens(t, x)
      BY <3>2, <3>3 DEF Ratchet!HeaderOpens
    <3> QED
      BY <3>1, <3>4, <2>3, <1>2, <1>4
  <2> QED
    BY <2>1, <2>2, <2>3
<1>13. TurnInv'
  BY <1>10, <1>11, <1>12 DEF TurnInv, InTurns
<1> QED
  BY <1>9, <1>13

Sends(t, m) == m.header = t.hks /\ m.dh = t.dh /\ m.key = <<t.sending, m.n>>
NewChain(s, t) ==
  /\ t.dh \in Pairs /\ t.dh.i = s.dh.i + 1
  /\ t.root = Ratchet!Root(s.root, t.dh, s.remote) /\ t.sending = Ratchet!Key("chain", t.root)
  /\ t.remote = s.remote /\ t.hkr = s.hkr /\ t.nhkr = s.nhkr
  /\ t.hks = s.nhks /\ t.nhks = Ratchet!Key("next header", t.root)

(* The keys of a new chain are derived from those of the last.               *)
LEMMA DerivedOnNewChain ==
  ASSUME NEW s, NEW t, NewChain(s, t), Derived(s), Len(s.root) \in Nat, Len(t.root) = Len(s.root) + 1
  PROVE  Derived(t) /\ Earlier(t.hks, t.root)
<1>1. t.hks = s.nhks /\ t.remote = s.remote /\ t.sending = Ratchet!Key("chain", t.root)
  BY DEF NewChain
<1>2. t.nhks # Ratchet!Empty /\ t.nhks[1] = "next header" /\ t.nhks[2] = t.root
  <2>1. PICK k : k = Ratchet!Key("next header", t.root)
    OBVIOUS
  <2>2. k # Ratchet!Empty /\ k[1] = "next header" /\ k[2] = t.root
    BY <2>1, KeyFacts
  <2>3. t.nhks = k
    BY <2>1 DEF NewChain
  <2> QED
    BY <2>2, <2>3
<1>3. s.nhks[1] = "next header" /\ Len(s.nhks[2]) \in Nat /\ Len(s.nhks[2]) <= Len(s.root)
  BY DEF Derived
<1>4. Len(s.nhks[2]) < Len(t.root)
  <2>1. PICK i \in Nat, n \in Nat : i = Len(s.nhks[2]) /\ n = Len(s.root)
    BY <1>3
  <2>2. i <= n => i < n + 1
    OBVIOUS
  <2> QED
    BY <1>3, <2>1, <2>2
<1>5. Earlier(t.hks, t.root)
  BY <1>1, <1>3, <1>4 DEF Earlier
<1>6. t.remote # Ratchet!NoPair
  BY <1>1 DEF Derived
<1>7. Len(t.root) \in Nat /\ Len(t.root) <= Len(t.root)
  OBVIOUS
<1> QED
  BY <1>1, <1>2, <1>5, <1>6, <1>7 DEF Derived

(* Sending on a new chain: the sender is ahead until it is answered.         *)
LEMMA SendTurnTurnInv ==
  ASSUME RatchetTypes, SentInv, TurnInv, session = "roles", NEW p \in Ratchet!Parties,
         ratchet[p].sending = Ratchet!Empty,
         NEW t, NewChain(ratchet[p], t), NEW m, m.from = p, Sends(t, m),
         ratchet' = [ratchet EXCEPT ![p] = t], network' = network \cup {m}, session' = session
  PROVE  SentInv' /\ TurnInv'
<1> DEFINE s == ratchet[p]
<1>1. PICK q : q = Ratchet!Other(p)
  OBVIOUS
<1>2. q \in Ratchet!Parties /\ q # p /\ Ratchet!Other(q) = p /\ (\A x \in Ratchet!Parties : x \in {p, q})
  BY <1>1, TwoParties
<1>3. PICK o : o = ratchet[q]
  OBVIOUS
<1>4. ratchet'[p] = t /\ ratchet'[q] = o
  BY <1>2, <1>3 DEF RatchetTypes
<1>5. (p = "alice" /\ q = "bob") \/ (p = "bob" /\ q = "alice")
  BY <1>1 DEF Ratchet!Parties, Ratchet!Other
<1>6. Level
  <2>1. InTurns /\ ~Ahead(p) /\ ~Ahead(q)
    BY <1>1, <1>2 DEF TurnInv, Ahead
  <2> QED
    BY <2>1, <1>5 DEF InTurns
<1>7. /\ s.root = o.root /\ s.remote = o.dh /\ o.remote = s.dh
      /\ s.nhks = o.nhkr /\ o.nhks = s.nhkr /\ o.sending # Ratchet!Empty
  BY <1>3, <1>5, <1>6 DEF Level
<1>8. /\ s.root \in Seq(SUBSET Pairs) /\ s.dh \in Pairs /\ s.dh.i \in Nat /\ s.dh.party = p
      /\ o.dh \in Pairs /\ o.dh.party = q
  BY <1>2, <1>3 DEF RatchetTypes, StateOf, Pairs
<1>9. t.dh \in Pairs /\ t.dh.i = s.dh.i + 1
  BY DEF NewChain
<1>10. Len(s.root) \in Nat /\ Len(t.root) = Len(s.root) + 1
  <2>1. t.root = Ratchet!Root(s.root, t.dh, s.remote)
    BY DEF NewChain
  <2>2. s.remote \in Pairs
    BY <1>7, <1>8
  <2> QED
    BY <2>1, <2>2, <1>8, <1>9, RootFacts
<1>11. \A x \in network : x.from \in {p, q}
  BY <1>2 DEF RatchetTypes, Message
<1>12. SentInv'
  <2> SUFFICES ASSUME NEW x \in network'
               PROVE  LET y == ratchet'[x.from] IN
                      /\ x.dh.i <= y.dh.i
                      /\ x.dh = y.dh /\ y.sending # Ratchet!Empty =>
                           x.header = y.hks /\ x.key = <<y.sending, x.n>>
    BY DEF SentInv
  <2>1. CASE x = m
    BY <2>1, <1>4, <1>8, <1>9 DEF Sends
  <2>2. CASE x \in network /\ x.from = p
    <3>1. x.dh.i \in Nat /\ x.dh.i <= s.dh.i
      BY <2>2 DEF SentInv, RatchetTypes, Message, Pairs
    <3>2. x.dh.i <= t.dh.i /\ x.dh # t.dh
      BY <3>1, <1>8, <1>9
    <3> QED
      BY <3>2, <2>2, <1>4
  <2>3. CASE x \in network /\ x.from = q
    BY <2>3, <1>3, <1>4 DEF SentInv
  <2> QED
    BY <2>1, <2>2, <2>3, <1>11
<1>13. Ahead(p)'
  <2>1. /\ t.root = Ratchet!Root(o.root, t.dh, o.dh) /\ t.remote = o.dh /\ t.dh.i = o.remote.i + 1
        /\ t.hks = o.nhkr /\ o.nhks = t.nhkr /\ t.nhks = Ratchet!Key("next header", t.root)
        /\ t.sending # Ratchet!Empty /\ o.sending # Ratchet!Empty
    <3>1. /\ t.root = Ratchet!Root(s.root, t.dh, s.remote) /\ t.remote = s.remote
          /\ t.nhkr = s.nhkr /\ t.hks = s.nhks /\ t.nhks = Ratchet!Key("next header", t.root)
      BY DEF NewChain
    <3>2. t.sending # Ratchet!Empty
      <4>1. PICK k : k = Ratchet!Key("chain", t.root)
        OBVIOUS
      <4>2. t.sending = k
        BY <4>1 DEF NewChain
      <4> QED
        BY <4>1, <4>2, KeyFacts
    <3> QED
      BY <3>1, <3>2, <1>7, <1>9
  <2> QED
    BY <2>1, <1>1, <1>4 DEF Ahead
<1>14. \A x \in Ratchet!Parties : Derived(ratchet'[x])
  <2>1. Derived(o) /\ Derived(s)
    BY <1>2, <1>3 DEF TurnInv
  <2>2. Derived(t)
    BY <2>1, <1>10, DerivedOnNewChain
  <2> QED
    BY <1>2, <1>4, <2>1, <2>2
<1>15. ASSUME NEW x \in network'
       PROVE  LET y == ratchet'[Ratchet!Other(x.from)] IN
              /\ Earlier(x.header, ratchet'[x.from].root)
              /\ x.dh.i < y.remote.i => ~Ratchet!HeaderOpens(y, x)
  <2>1. CASE x = m
    <3>1. Earlier(t.hks, t.root)
      BY <1>10, DerivedOnNewChain DEF TurnInv
    <3>2. ~(t.dh.i < o.remote.i)
      BY <1>7, <1>8, <1>9
    <3> QED
      BY <3>1, <3>2, <2>1, <1>1, <1>4 DEF Sends
  <2>2. CASE x \in network /\ x.from = p
    <3>1. Earlier(x.header, s.root) /\ (x.dh.i < o.remote.i => ~Ratchet!HeaderOpens(o, x))
      BY <1>1, <1>3, <2>2 DEF TurnInv
    <3>2. Earlier(x.header, t.root)
      BY <3>1, <1>10, EarlierAfterTurn
    <3> QED
      BY <3>1, <3>2, <2>2, <1>1, <1>4
  <2>3. CASE x \in network /\ x.from = q
    <3>1. Earlier(x.header, o.root) /\ (x.dh.i < s.remote.i => ~Ratchet!HeaderOpens(s, x))
      BY <1>2, <1>3, <2>3 DEF TurnInv
    <3> QED
      BY <3>1, <2>3, <1>2, <1>4 DEF Ratchet!HeaderOpens, NewChain
  <2> QED
    BY <2>1, <2>2, <2>3, <1>11
<1>16. TurnInv'
  BY <1>5, <1>13, <1>14, <1>15 DEF TurnInv, InTurns
<1> QED
  BY <1>12, <1>16

(* Sending on the chain there is.                                            *)
LEMMA SendOnTurnInv ==
  ASSUME RatchetTypes, SentInv, TurnInv, NEW p \in Ratchet!Parties,
         ratchet[p].sending # Ratchet!Empty,
         NEW t, Quiet(ratchet[p], t), t.hkr = ratchet[p].hkr,
         NEW m, m.from = p, Sends(t, m),
         ratchet' = [ratchet EXCEPT ![p] = t], network' = network \cup {m}, session' = session
  PROVE  SentInv' /\ TurnInv'
<1> DEFINE s == ratchet[p]
<1>1. PICK q : q = Ratchet!Other(p)
  OBVIOUS
<1>2. q \in Ratchet!Parties /\ q # p /\ Ratchet!Other(q) = p /\ (\A x \in Ratchet!Parties : x \in {p, q})
  BY <1>1, TwoParties
<1>3. PICK o : o = ratchet[q]
  OBVIOUS
<1>4. ratchet'[p] = t /\ ratchet'[q] = o
  BY <1>2, <1>3 DEF RatchetTypes
<1>5. (p = "alice" /\ q = "bob") \/ (p = "bob" /\ q = "alice")
  BY <1>1 DEF Ratchet!Parties, Ratchet!Other
<1>6. \A x \in network : x.from \in {p, q}
  BY <1>2 DEF RatchetTypes, Message
<1>7. /\ t.root = s.root /\ t.dh = s.dh /\ t.remote = s.remote /\ t.sending = s.sending
      /\ t.hks = s.hks /\ t.nhks = s.nhks /\ t.nhkr = s.nhkr /\ t.hkr = s.hkr
  BY DEF Quiet
<1>8. s.dh.i \in Nat /\ o.dh.i \in Nat /\ o.remote.i \in Nat
  BY <1>2, <1>3 DEF RatchetTypes, StateOf, Pairs
<1>9. SentInv'
  <2> SUFFICES ASSUME NEW x \in network'
               PROVE  LET y == ratchet'[x.from] IN
                      /\ x.dh.i <= y.dh.i
                      /\ x.dh = y.dh /\ y.sending # Ratchet!Empty =>
                           x.header = y.hks /\ x.key = <<y.sending, x.n>>
    BY DEF SentInv
  <2>1. CASE x = m
    BY <2>1, <1>4, <1>7, <1>8 DEF Sends
  <2>2. CASE x \in network /\ x.from = p
    BY <2>2, <1>4, <1>7 DEF SentInv
  <2>3. CASE x \in network /\ x.from = q
    BY <2>3, <1>3, <1>4 DEF SentInv
  <2> QED
    BY <2>1, <2>2, <2>3, <1>6
<1>10. ASSUME session = "roles" PROVE InTurns'
  <2>1. InTurns
    BY <1>10 DEF TurnInv
  <2>2. Level => Level'
    BY <1>3, <1>4, <1>5, <1>7 DEF Level
  <2>3. Ahead(p) => Ahead(p)'
    BY <1>1, <1>3, <1>4, <1>7 DEF Ahead
  <2>4. Ahead(q) => Ahead(q)'
    BY <1>2, <1>3, <1>4, <1>7 DEF Ahead
  <2> QED
    BY <2>1, <2>2, <2>3, <2>4, <1>5 DEF InTurns
<1>11. ASSUME session = "roles"
       PROVE  Derived(t) /\ \A x \in Ratchet!Parties : Derived(ratchet'[x])
  <2>1. Derived(s) /\ Derived(o)
    BY <1>2, <1>3, <1>11 DEF TurnInv
  <2>2. Derived(t)
    BY <2>1, <1>7 DEF Derived
  <2> QED
    BY <2>1, <2>2, <1>2, <1>4
<1>12. ASSUME session = "roles", NEW x \in network'
       PROVE  LET y == ratchet'[Ratchet!Other(x.from)] IN
              /\ Earlier(x.header, ratchet'[x.from].root)
              /\ x.dh.i < y.remote.i => ~Ratchet!HeaderOpens(y, x)
  <2>1. CASE x = m
    <3>1. Earlier(t.hks, t.root)
      BY <1>7, <1>11, <1>12 DEF Derived
    <3>2. o.remote = s.dh \/ s.dh.i = o.remote.i + 1
      <4>1. Level \/ Ahead(p) \/ Ahead(q)
        BY <1>5, <1>12 DEF TurnInv, InTurns
      <4>2. Level => o.remote = s.dh
        BY <1>3, <1>5 DEF Level
      <4>3. Ahead(p) => s.dh.i = o.remote.i + 1
        BY <1>1, <1>3 DEF Ahead
      <4>4. Ahead(q) => o.remote = s.dh
        BY <1>2, <1>3 DEF Ahead
      <4> QED
        BY <4>1, <4>2, <4>3, <4>4
    <3>3. ~(t.dh.i < o.remote.i)
      BY <3>2, <1>7, <1>8
    <3> QED
      BY <3>1, <3>3, <2>1, <1>1, <1>4 DEF Sends
  <2>2. CASE x \in network /\ x.from = p
    BY <2>2, <1>1, <1>3, <1>4, <1>7, <1>12 DEF TurnInv
  <2>3. CASE x \in network /\ x.from = q
    BY <2>3, <1>2, <1>3, <1>4, <1>7, <1>12 DEF TurnInv, Ratchet!HeaderOpens
  <2> QED
    BY <2>1, <2>2, <2>3, <1>6
<1>13. TurnInv'
  BY <1>10, <1>11, <1>12 DEF TurnInv
<1> QED
  BY <1>9, <1>13

-----------------------------------------------------------------------------
(* The steps of the ratchet.                                                 *)
LEMMA SendTypes ==
  ASSUME RatchetTypes, NEW p \in Ratchet!Parties, NEW t, StateOf(t, p),
         t.remote = ratchet[p].remote, t.nr = ratchet[p].nr, t.skipped = ratchet[p].skipped,
         NEW m, Message(m), ratchet' = [ratchet EXCEPT ![p] = t], network' = network \cup {m},
         session' = session, read' = read
  PROVE  RatchetTypes'
<1>1. ratchet'[p] = t /\ (\A q \in Ratchet!Parties : q # p => ratchet'[q] = ratchet[q])
      /\ DOMAIN ratchet' = Ratchet!Parties
  BY DEF RatchetTypes
<1>2. ASSUME NEW q \in Ratchet!Parties PROVE StateOf(ratchet'[q], q) /\ KeysKept(ratchet'[q])
  <2>1. StateOf(ratchet[q], q) /\ KeysKept(ratchet[q])
    BY DEF RatchetTypes
  <2>2. KeysKept(ratchet[p]) => KeysKept(t)
    BY DEF KeysKept
  <2> QED
    BY <1>1, <2>1, <2>2
<1>3. \A x : Used(ratchet[p], x) => Used(t, x)
  BY DEF Used, Ratchet!SkippedFor
<1>4. ASSUME NEW x \in read PROVE Used(ratchet'[Ratchet!Other(x.from)], x)
  <2>1. Used(ratchet[Ratchet!Other(x.from)], x) /\ Ratchet!Other(x.from) \in Ratchet!Parties
    BY TwoParties DEF RatchetTypes, Message
  <2> QED
    BY <1>1, <1>3, <2>1
<1> QED
  BY <1>1, <1>2, <1>4 DEF RatchetTypes

LEMMA SendShared ==
  ASSUME RatchetTypes, SharedInv, session # "roles", NEW p \in Ratchet!Parties, NEW t, StateOf(t, p),
         Quiet(ratchet[p], t), t.hkr = ratchet[p].hkr, t.receiving = ratchet[p].receiving,
         t.nr = ratchet[p].nr, t.skipped = ratchet[p].skipped, t.pn = ratchet[p].pn,
         t.ns = ratchet[p].ns + 1,
         NEW m, Message(m), m.from = p, m.pn = t.pn, m.n = ratchet[p].ns,
         ratchet' = [ratchet EXCEPT ![p] = t], network' = network \cup {m},
         session' = session, read' = read, dropped' = dropped
  PROVE  SharedInv'
<1> DEFINE s == ratchet[p]
<1>1. PICK q : q = Ratchet!Other(p)
  OBVIOUS
<1>2. q \in Ratchet!Parties /\ q # p /\ Ratchet!Other(q) = p /\ (\A x \in Ratchet!Parties : x \in {p, q})
  BY <1>1, TwoParties
<1>3. PICK o : o = ratchet[q]
  OBVIOUS
<1>4. ratchet'[p] = t /\ ratchet'[q] = o
  BY <1>2, <1>3 DEF RatchetTypes
<1>5. /\ t.root = s.root /\ t.dh = s.dh /\ t.remote = s.remote /\ t.sending = s.sending
      /\ t.hks = s.hks /\ t.hkr = s.hkr
  BY DEF Quiet
<1>6. s.ns \in Nat /\ o.ns \in Nat /\ s.nr \in Nat /\ o.nr \in Nat
  BY <1>2, <1>3 DEF RatchetTypes, StateOf
<1>7. /\ s.root = <<>> /\ s.dh.i = 0 /\ s.remote \in {Ratchet!NoPair, o.dh}
      /\ s.sending # Ratchet!Empty /\ s.receiving = o.sending
      /\ s.hkr = o.hks /\ s.nr <= o.ns /\ s.pn = 0
      /\ \A k \in s.skipped : k.key = <<s.receiving, k.n>>
  BY <1>1, <1>3 DEF SharedInv
<1>8. /\ o.root = <<>> /\ o.dh.i = 0 /\ o.remote \in {Ratchet!NoPair, s.dh}
      /\ o.sending # Ratchet!Empty /\ o.receiving = s.sending
      /\ o.hkr = s.hks /\ o.nr <= s.ns /\ o.pn = 0
      /\ \A k \in o.skipped : k.key = <<o.receiving, k.n>>
  BY <1>2, <1>3 DEF SharedInv
<1>9. ASSUME NEW x \in Ratchet!Parties
      PROVE  LET y == ratchet'[x]
                 z == ratchet'[Ratchet!Other(x)]
             IN /\ y.root = <<>> /\ y.dh.i = 0 /\ y.remote \in {Ratchet!NoPair, z.dh}
                /\ y.sending # Ratchet!Empty /\ y.receiving = z.sending
                /\ y.hkr = z.hks /\ y.nr <= z.ns /\ y.pn = 0
                /\ \A k \in y.skipped : k.key = <<y.receiving, k.n>>
  <2>1. o.nr <= t.ns
    BY <1>6, <1>8
  <2>2. CASE x = p
    BY <2>2, <1>1, <1>4, <1>5, <1>7
  <2>3. CASE x = q
    BY <2>3, <2>1, <1>2, <1>4, <1>5, <1>8
  <2> QED
    BY <2>2, <2>3, <1>2
<1>10. ASSUME NEW x \in network'
       PROVE  LET y == ratchet'[Ratchet!Other(x.from)] IN
              /\ x.pn = 0 /\ x.n < ratchet'[x.from].ns
              /\ x.n < y.nr => x \in read \/ x.key \in dropped \/ Ratchet!SkippedFor(y, x) # {}
  <2>1. CASE x = m
    <3>1. ~(m.n < o.nr) /\ m.n < t.ns /\ m.pn = 0
      BY <1>6, <1>7, <1>8
    <3> QED
      BY <2>1, <3>1, <1>1, <1>4
  <2>2. CASE x \in network /\ x.from = p
    <3>1. x.pn = 0 /\ x.n < s.ns /\ x.n \in Nat
          /\ (x.n < o.nr => x \in read \/ x.key \in dropped \/ Ratchet!SkippedFor(o, x) # {})
      BY <2>2, <1>1, <1>3 DEF SharedInv, RatchetTypes, Message
    <3>2. x.n < t.ns
      BY <3>1, <1>6
    <3> QED
      BY <2>2, <3>1, <3>2, <1>1, <1>4
  <2>3. CASE x \in network /\ x.from = q
    BY <2>3, <1>2, <1>3, <1>4 DEF SharedInv, Ratchet!SkippedFor
  <2> QED
    BY <2>1, <2>2, <2>3, <1>2 DEF RatchetTypes, Message
<1> QED
  BY <1>9, <1>10 DEF SharedInv

LEMMA NextPair ==
  ASSUME NEW d \in Pairs, NEW e, e = [party |-> d.party, i |-> d.i + 1]
  PROVE  e \in Pairs /\ e.party = d.party /\ e.i = d.i + 1
<1>1. d.party \in {"alice", "bob", "none"} /\ d.i + 1 \in Nat
  BY DEF Pairs
<1> QED
  BY <1>1 DEF Pairs

LEMMA SendKeepsRatchet ==
  ASSUME RatchetInv, NEW p \in Ratchet!Parties, Ratchet!Send(p)
  PROVE  RatchetInv'
<1> DEFINE s == ratchet[p]
<1>1. PICK u : u = IF s.sending = Ratchet!Empty THEN Ratchet!SendRatchet(s) ELSE s
  OBVIOUS
<1>2. PICK t : t = [u EXCEPT !.ns = @ + 1]
  OBVIOUS
<1>3. PICK m : m = [from |-> p, header |-> u.hks, dh |-> u.dh, pn |-> u.pn, n |-> u.ns,
                    key |-> <<u.sending, u.ns>>]
  OBVIOUS
<1>4. /\ network' = network \cup {m} /\ ratchet' = [ratchet EXCEPT ![p] = t]
      /\ session' = session /\ read' = read /\ dropped' = dropped
  BY <1>1, <1>2, <1>3 DEF Ratchet!Send
<1>5. RatchetTypes /\ SentInv /\ TurnInv /\ SharedInv
  BY DEF RatchetInv
<1>6. StateOf(s, p)
  BY <1>5 DEF RatchetTypes
<1>7. StateRecord(s) /\ s.dh \in Pairs /\ s.dh.party = p /\ s.root \in Seq(SUBSET Pairs)
      /\ s.remote \in Pairs /\ s.ns \in Nat /\ s.nr \in Nat /\ s.pn \in Nat
  BY <1>6 DEF StateOf
<1>8. ASSUME StateRecord(u)
      PROVE  /\ StateRecord(t) /\ t.ns = u.ns + 1
             /\ t.root = u.root /\ t.dh = u.dh /\ t.remote = u.remote /\ t.sending = u.sending
             /\ t.receiving = u.receiving /\ t.hks = u.hks /\ t.nhks = u.nhks /\ t.nhkr = u.nhkr
             /\ t.hkr = u.hkr /\ t.nr = u.nr /\ t.pn = u.pn /\ t.skipped = u.skipped
  BY <1>2, <1>8 DEF StateRecord, Fields
<1>9. /\ m.from = p /\ m.header = u.hks /\ m.dh = u.dh /\ m.pn = u.pn /\ m.n = u.ns
      /\ m.key = <<u.sending, u.ns>>
      /\ m = [from |-> m.from, header |-> m.header, dh |-> m.dh, pn |-> m.pn, n |-> m.n, key |-> m.key]
  BY <1>3
<1> HIDE DEF s
<1>10. CASE s.sending = Ratchet!Empty
  <2>1. session = "roles"
    BY <1>5, <1>10 DEF SharedInv, s
  <2>2. s.nhks # Ratchet!Empty
    BY <1>5, <2>1 DEF TurnInv, Derived, s
  <2>3. u = Ratchet!SendRatchet(s)
    BY <1>1, <1>10 DEF s
  <2>4. /\ StateRecord(u)
        /\ u.dh = [party |-> s.dh.party, i |-> s.dh.i + 1]
        /\ u.root = Ratchet!Root(s.root, u.dh, s.remote)
        /\ u.remote = s.remote /\ u.sending = Ratchet!Key("chain", u.root)
        /\ u.hkr = s.hkr /\ u.nhkr = s.nhkr /\ u.hks = s.nhks
        /\ u.nhks = Ratchet!Key("next header", u.root)
        /\ u.ns = 0 /\ u.nr = s.nr /\ u.pn = s.ns /\ u.skipped = s.skipped
    BY <1>7, <2>2, <2>3, SendRatchetState
  <2>5. u.dh \in Pairs /\ u.dh.party = p /\ u.dh.i = s.dh.i + 1
    BY <1>7, <2>4, NextPair
  <2>6. u.root \in Seq(SUBSET Pairs)
    BY <1>7, <2>4, <2>5, RootFacts
  <2>7. StateOf(t, p)
    <3>1. StateRecord(t) /\ t.root = u.root /\ t.dh = u.dh /\ t.remote = s.remote
          /\ t.nr = s.nr /\ t.pn = s.ns /\ t.ns = 0 + 1
      BY <1>8, <2>4
    <3>2. t.ns \in Nat
      BY <3>1
    <3> QED
      BY <1>6, <3>1, <3>2, <2>5, <2>6 DEF StateOf
  <2>8. Message(m)
    <3>1. m.from = p /\ m.dh = u.dh /\ m.pn = s.ns /\ m.n = 0
      BY <1>9, <2>4
    <3>2. m.pn \in Nat /\ m.n \in Nat
      BY <1>7, <3>1
    <3> QED
      BY <1>9, <2>5, <3>1, <3>2 DEF Message
  <2>9. NewChain(s, t)
    BY <1>8, <2>4, <2>5 DEF NewChain
  <2>10. Sends(t, m)
    BY <1>8, <1>9, <2>4 DEF Sends
  <2>11. t.remote = s.remote /\ t.nr = s.nr /\ t.skipped = s.skipped
    BY <1>8, <2>4
  <2>12. RatchetTypes'
    BY <1>4, <1>5, <2>7, <2>8, <2>11, SendTypes DEF s
  <2>13. SentInv' /\ TurnInv'
    BY <1>4, <1>5, <1>9, <1>10, <2>1, <2>9, <2>10, SendTurnTurnInv DEF s
  <2>14. SharedInv'
    BY <1>4, <2>1 DEF SharedInv
  <2> QED
    BY <2>12, <2>13, <2>14 DEF RatchetInv
<1>11. CASE s.sending # Ratchet!Empty
  <2>1. u = s
    BY <1>1, <1>11 DEF s
  <2>2. Quiet(s, t) /\ t.hkr = s.hkr /\ t.receiving = s.receiving /\ t.remote = s.remote
        /\ t.nr = s.nr /\ t.skipped = s.skipped /\ t.pn = s.pn /\ t.ns = s.ns + 1 /\ StateRecord(t)
    BY <1>7, <1>8, <2>1 DEF Quiet
  <2>3. StateOf(t, p)
    BY <1>6, <1>7, <1>8, <2>1, <2>2 DEF StateOf
  <2>4. Message(m)
    BY <1>7, <1>9, <2>1 DEF Message
  <2>5. Sends(t, m)
    BY <1>7, <1>8, <1>9, <2>1 DEF Sends
  <2>6. m.pn = t.pn /\ m.n = s.ns
    BY <1>9, <2>1, <2>2
  <2>7. RatchetTypes'
    BY <1>4, <1>5, <2>2, <2>3, <2>4, SendTypes DEF s
  <2>8. SentInv' /\ TurnInv'
    BY <1>4, <1>5, <1>9, <1>11, <2>2, <2>5, SendOnTurnInv DEF s
  <2>9. SharedInv'
    <3>1. CASE session = "roles"
      BY <1>4, <3>1 DEF SharedInv
    <3>2. CASE session # "roles"
      BY <1>4, <1>5, <1>9, <2>2, <2>3, <2>4, <2>6, <3>2, SendShared DEF s
    <3> QED
      BY <3>1, <3>2
  <2> QED
    BY <2>7, <2>8, <2>9 DEF RatchetInv
<1> QED
  BY <1>10, <1>11

(* A message arrives: what the receiver's state becomes.                     *)
LEMMA ReceiveTypes ==
  ASSUME RatchetTypes, NEW p \in Ratchet!Parties, NEW t, StateOf(t, p), Moved(ratchet[p], t),
         NEW m \in network, m.from = Ratchet!Other(p),
         read' = read \/ (read' = read \cup {m} /\ Used(t, m)),
         ratchet' = [ratchet EXCEPT ![p] = t], network' = network, session' = session
  PROVE  RatchetTypes'
<1>1. ratchet'[p] = t /\ (\A q \in Ratchet!Parties : q # p => ratchet'[q] = ratchet[q])
      /\ DOMAIN ratchet' = Ratchet!Parties
  BY DEF RatchetTypes
<1>2. \A q \in Ratchet!Parties : StateOf(ratchet'[q], q) /\ KeysKept(ratchet'[q])
  BY <1>1 DEF RatchetTypes, Moved
<1>3. read' \subseteq network
  BY DEF RatchetTypes
<1>4. ASSUME NEW x \in read' PROVE Used(ratchet'[Ratchet!Other(x.from)], x)
  <2>1. x.from \in Ratchet!Parties /\ x.dh \in Pairs /\ x.n \in Nat
    BY <1>3 DEF RatchetTypes, Message
  <2>2. CASE x \in read
    <3>1. Used(ratchet[Ratchet!Other(x.from)], x) /\ Ratchet!Other(x.from) \in Ratchet!Parties
      BY <2>1, <2>2, TwoParties DEF RatchetTypes
    <3> QED
      BY <3>1, <2>1, <1>1 DEF Moved
  <2>3. CASE x = m /\ Used(t, m)
    BY <2>3, <1>1, TwoParties
  <2> QED
    BY <2>2, <2>3
<1> QED
  BY <1>1, <1>2, <1>3, <1>4 DEF RatchetTypes

LEMMA HeaderReadSame ==
  ASSUME NEW p \in Ratchet!Parties, NEW o, StateOf(o, p), KeysKept(o), NEW m,
         NEW s, s = Ratchet!HeaderRead(o, m)
  PROVE  /\ StateOf(s, p) /\ KeysKept(s) /\ Quiet(o, s)
         /\ \A t : Moved(s, t) => Moved(o, t)
         /\ Moved(o, s)
<1>1. StateRecord(o)
  BY DEF StateOf
<1>2. /\ StateRecord(s)
      /\ s.root = o.root /\ s.dh = o.dh /\ s.remote = o.remote /\ s.sending = o.sending
      /\ s.receiving = o.receiving /\ s.hks = o.hks /\ s.nhks = o.nhks /\ s.nhkr = o.nhkr
      /\ s.ns = o.ns /\ s.nr = o.nr /\ s.pn = o.pn /\ s.skipped = o.skipped
      /\ s.hkr \in {o.hkr, o.nhkr}
  BY <1>1, HeaderReadState
<1>3. StateOf(s, p)
  BY <1>2 DEF StateOf
<1>4. KeysKept(s) /\ (\A x : Used(o, x) => Used(s, x))
  BY <1>2 DEF KeysKept, Used, Ratchet!SkippedFor
<1>5. Quiet(o, s)
  BY <1>2 DEF Quiet
<1>6. \A t : Moved(s, t) => Moved(o, t)
  BY <1>4 DEF Moved
<1>7. Moved(o, s)
  BY <1>3, <1>4 DEF Moved, StateOf
<1> QED
  BY <1>3, <1>4, <1>5, <1>6, <1>7

LEMMA MovedTwice ==
  ASSUME NEW s, NEW t, NEW u, Moved(s, t), Moved(t, u)
  PROVE  Moved(s, u)
BY DEF Moved

(* Taking a kept key, and reading the next message of the chain.             *)
LEMMA TakenState ==
  ASSUME NEW p \in Ratchet!Parties, NEW s, StateOf(s, p), KeysKept(s), NEW m, m.n \in Nat,
         NEW k \in Ratchet!SkippedFor(s, m), NEW t, t = Ratchet!TakeSkipped(s, k)
  PROVE  /\ StateOf(t, p) /\ Moved(s, t) /\ Used(t, m)
         /\ t.root = s.root /\ t.dh = s.dh /\ t.remote = s.remote /\ t.sending = s.sending
         /\ t.receiving = s.receiving /\ t.hks = s.hks /\ t.hkr = s.hkr
         /\ t.nhks = s.nhks /\ t.nhkr = s.nhkr
         /\ t.ns = s.ns /\ t.nr = s.nr /\ t.pn = s.pn /\ t.skipped = s.skipped \ {k}
<1>1. StateRecord(s) /\ s.nr \in Nat /\ s.remote \in Pairs
  BY DEF StateOf
<1>2. Moved(s, t) /\ Used(t, m)
  BY <1>1, TakeKeeps
<1>3. /\ StateRecord(t)
      /\ t.root = s.root /\ t.dh = s.dh /\ t.remote = s.remote /\ t.sending = s.sending
      /\ t.receiving = s.receiving /\ t.hks = s.hks /\ t.hkr = s.hkr
      /\ t.nhks = s.nhks /\ t.nhkr = s.nhkr
      /\ t.ns = s.ns /\ t.nr = s.nr /\ t.pn = s.pn /\ t.skipped = s.skipped \ {k}
  BY <1>1, TakeSkippedState
<1>4. StateOf(t, p)
  BY <1>3 DEF StateOf
<1> QED
  BY <1>2, <1>3, <1>4

LEMMA ReadState ==
  ASSUME NEW p \in Ratchet!Parties, NEW s, StateOf(s, p), KeysKept(s), s.remote # Ratchet!NoPair,
         NEW m, m.n \in Nat, m.dh = s.remote, Ratchet!SkippedFor(s, m) = {}, ~Ratchet!OutOfRange(s, m),
         NEW t, t = Ratchet!Advanced(s, m)
  PROVE  /\ StateOf(t, p) /\ Moved(s, t) /\ Used(t, m)
         /\ t.root = s.root /\ t.dh = s.dh /\ t.remote = s.remote /\ t.sending = s.sending
         /\ t.receiving = s.receiving /\ t.hks = s.hks /\ t.hkr = s.hkr
         /\ t.nhks = s.nhks /\ t.nhkr = s.nhkr
         /\ t.ns = s.ns /\ t.nr = m.n + 1 /\ t.pn = s.pn
         /\ t.skipped = s.skipped
                        \cup {[dh |-> s.remote, n |-> i, key |-> <<s.receiving, i>>] : i \in Ratchet!Kept(s, m.n)}
<1>1. StateRecord(s) /\ s.nr \in Nat /\ s.remote \in Pairs /\ s.nr <= m.n
  BY DEF StateOf, Ratchet!OutOfRange
<1>2. Moved(s, t) /\ Used(t, m)
  BY <1>1, AdvanceKeeps
<1>3. /\ StateRecord(t)
      /\ t.root = s.root /\ t.dh = s.dh /\ t.remote = s.remote /\ t.sending = s.sending
      /\ t.receiving = s.receiving /\ t.hks = s.hks /\ t.hkr = s.hkr
      /\ t.nhks = s.nhks /\ t.nhkr = s.nhkr
      /\ t.ns = s.ns /\ t.nr = m.n + 1 /\ t.pn = s.pn /\ t.skipped = Ratchet!SkipTo(s, m.n).skipped
  BY <1>1, AdvancedState
<1>4. StateOf(t, p)
  BY <1>3 DEF StateOf
<1>5. Ratchet!SkipTo(s, m.n).skipped
      = s.skipped \cup {[dh |-> s.remote, n |-> i, key |-> <<s.receiving, i>>] : i \in Ratchet!Kept(s, m.n)}
  BY <1>1, SkipToState
<1> QED
  BY <1>2, <1>3, <1>4, <1>5

(* The receiver has turned to the chain of a new key.                        *)
TurnsOver(s, m, t) ==
  /\ t.root = Ratchet!Root(s.root, s.dh, m.dh)
  /\ t.dh = s.dh /\ t.remote = m.dh /\ t.sending = Ratchet!Empty /\ t.nhks = s.nhks
  /\ t.hkr = Ratchet!Key("next header", t.root) /\ t.nhkr = Ratchet!Key("next header", t.root)

LEMMA TurnedInRoles ==
  ASSUME RatchetTypes, SentInv, TurnInv, session = "roles", NEW p \in Ratchet!Parties,
         NEW m \in network, m.from = Ratchet!Other(p), Ratchet!HeaderOpens(ratchet[p], m),
         NEW s, s = Ratchet!HeaderRead(ratchet[p], m), NEW t, t = Ratchet!Turned(s, m)
  PROVE  /\ StateOf(t, p) /\ Moved(ratchet[p], t) /\ t.remote = m.dh /\ m.dh # Ratchet!NoPair
         /\ \A k \in t.skipped : k \in s.skipped \/ k.dh # m.dh
         /\ Quiet(ratchet[p], t) \/ (m.dh # ratchet[p].remote /\ TurnsOver(ratchet[p], m, t))
<1> DEFINE o == ratchet[p]
<1>1. StateOf(o, p) /\ KeysKept(o) /\ o.remote # Ratchet!NoPair
  BY DEF RatchetTypes, TurnInv, Derived
<1>2. /\ StateOf(s, p) /\ KeysKept(s) /\ Quiet(o, s) /\ (\A x : Moved(s, x) => Moved(o, x))
  BY <1>1, HeaderReadSame
<1>3. m.dh \in Pairs /\ m.pn \in Nat /\ m.n \in Nat /\ m.dh.party = Ratchet!Other(p)
  BY DEF RatchetTypes, Message
<1>4. m.dh # Ratchet!NoPair
  BY <1>3, TwoParties, PairIsSome
<1>5. StateRecord(s) /\ s.nr \in Nat /\ s.remote \in Pairs /\ s.root \in Seq(SUBSET Pairs)
      /\ s.dh \in Pairs /\ s.dh.party = p /\ s.ns \in Nat /\ s.pn \in Nat
  BY <1>2 DEF StateOf
<1>6. /\ s.root = o.root /\ s.dh = o.dh /\ s.remote = o.remote /\ s.sending = o.sending
      /\ s.hks = o.hks /\ s.nhks = o.nhks /\ s.nhkr = o.nhkr /\ s.hkr \in {o.hkr, o.nhkr}
  BY <1>2 DEF Quiet
<1> HIDE DEF o
<1>7. CASE m.dh = o.remote
  <2>1. ~Ratchet!NewKey(s, m)
    BY <1>6, <1>7 DEF Ratchet!NewKey
  <2>2. Moved(o, t)
    BY <1>2, <1>3, <1>5, <2>1, RecordKeeps
  <2>3. /\ StateRecord(t)
        /\ t.root = s.root /\ t.dh = s.dh /\ t.remote = m.dh /\ t.sending = s.sending
        /\ t.receiving = s.receiving /\ t.hks = s.hks /\ t.hkr = s.hkr
        /\ t.nhks = s.nhks /\ t.nhkr = s.nhkr
        /\ t.ns = s.ns /\ t.nr = s.nr /\ t.pn = s.pn /\ t.skipped = s.skipped
    BY <1>5, <2>1, TurnedState
  <2>4. StateOf(t, p)
    BY <1>2, <1>3, <2>3 DEF StateOf
  <2>5. Quiet(o, t)
    BY <1>6, <1>7, <2>3 DEF Quiet
  <2> QED
    BY <1>4, <2>2, <2>3, <2>4, <2>5 DEF o
<1>8. CASE m.dh # o.remote
  <2>1. Ratchet!NewKey(s, m)
    BY <1>1, <1>6, <1>8 DEF Ratchet!NewKey
  <2>2. s.remote.i < m.dh.i
    BY <1>6, <1>8, NewKeyIsTurn DEF o
  <2>3. Moved(s, t)
    BY <1>2, <1>3, <1>5, <2>1, <2>2, TurnKeeps
  <2>4. PICK u : u = Ratchet!SkipTo(s, m.pn)
    OBVIOUS
  <2>5. /\ StateRecord(u)
        /\ u.root = s.root /\ u.dh = s.dh /\ u.hks = s.hks /\ u.nhks = s.nhks
        /\ u.ns = s.ns /\ u.pn = s.pn
    BY <1>5, <2>4, SkipToState
  <2>11. \A k \in u.skipped : k \in s.skipped \/ k.dh = s.remote
    BY <1>1, <1>2, <1>3, <1>5, <1>6, <2>4, SkipToKeeps
  <2>6. t = Ratchet!DhRatchet(u, m.dh)
    BY <1>5, <2>1, <2>4, TurnedState
  <2>7. /\ StateRecord(t)
        /\ t.root = Ratchet!Root(u.root, u.dh, m.dh) /\ t.dh = u.dh /\ t.remote = m.dh
        /\ t.sending = Ratchet!Empty /\ t.nhks = u.nhks
        /\ t.hkr = Ratchet!Key("next header", t.root) /\ t.nhkr = Ratchet!Key("next header", t.root)
        /\ t.ns = u.ns /\ t.pn = u.pn /\ t.nr = 0 /\ t.skipped = u.skipped
    BY <2>5, <2>6 DEF Ratchet!DhRatchet, StateRecord, Fields
  <2>8. TurnsOver(o, m, t)
    BY <1>6, <2>5, <2>7 DEF TurnsOver
  <2>9. t.root \in Seq(SUBSET Pairs)
    <3>1. t.root = Ratchet!Root(s.root, s.dh, m.dh)
      BY <2>5, <2>7
    <3> QED
      BY <3>1, <1>3, <1>5, RootFacts
  <2>10. StateOf(t, p)
    <3>1. StateRecord(t) /\ t.dh = s.dh /\ t.remote = m.dh /\ t.ns = s.ns /\ t.pn = s.pn /\ t.nr = 0
      BY <2>5, <2>7
    <3> QED
      BY <3>1, <1>3, <1>5, <2>9 DEF StateOf
  <2> QED
    <3>1. \A k \in t.skipped : k \in s.skipped \/ k.dh # m.dh
      BY <1>6, <1>8, <2>11, <2>7
    <3> QED
      BY <3>1, <1>2, <1>4, <1>8, <2>3, <2>7, <2>8, <2>10 DEF o
<1> QED
  BY <1>7, <1>8

LEMMA ReceiveInRoles ==
  ASSUME RatchetTypes, SentInv, TurnInv, session = "roles", NEW p \in Ratchet!Parties,
         NEW m \in network, m.from = Ratchet!Other(p), Ratchet!HeaderOpens(ratchet[p], m),
         NEW t, Quiet(ratchet[p], t) \/ (m.dh # ratchet[p].remote /\ TurnsOver(ratchet[p], m, t)),
         ratchet' = [ratchet EXCEPT ![p] = t], network' = network, session' = session
  PROVE  SentInv' /\ TurnInv' /\ SharedInv'
<1>1. SharedInv'
  BY DEF SharedInv
<1>2. CASE Quiet(ratchet[p], t)
  BY <1>1, <1>2, QuietTurnInv
<1>3. CASE m.dh # ratchet[p].remote /\ TurnsOver(ratchet[p], m, t)
  <2>1. /\ t.root = Ratchet!Root(ratchet[p].root, ratchet[p].dh, m.dh)
        /\ t.dh = ratchet[p].dh /\ t.remote = m.dh /\ t.sending = Ratchet!Empty
        /\ t.nhks = ratchet[p].nhks
        /\ t.hkr = Ratchet!Key("next header", t.root) /\ t.nhkr = Ratchet!Key("next header", t.root)
    BY <1>3 DEF TurnsOver
  <2>2. SentInv' /\ TurnInv'
    BY <1>3, <2>1, TurnTurnInv
  <2> QED
    BY <1>1, <2>2
<1> QED
  BY <1>2, <1>3

(* The same state after the next message of the chain has been read.         *)
LEMMA SameChain ==
  ASSUME NEW o, NEW m, NEW s, NEW t, Quiet(o, s) \/ (m.dh # o.remote /\ TurnsOver(o, m, s)),
         t.root = s.root, t.dh = s.dh, t.remote = s.remote, t.sending = s.sending,
         t.hks = s.hks, t.hkr = s.hkr, t.nhks = s.nhks, t.nhkr = s.nhkr
  PROVE  Quiet(o, t) \/ (m.dh # o.remote /\ TurnsOver(o, m, t))
BY DEF Quiet, TurnsOver

-----------------------------------------------------------------------------
(* A session from a shared secret.                                           *)
LEMMA SharedMessages ==
  ASSUME RatchetTypes, SentInv, SharedInv, session # "roles", NEW p \in Ratchet!Parties,
         NEW m \in network, m.from = Ratchet!Other(p)
  PROVE  LET o == ratchet[Ratchet!Other(p)] IN
         /\ m = [from |-> Ratchet!Other(p), header |-> o.hks, dh |-> o.dh, pn |-> 0, n |-> m.n,
                 key |-> <<o.sending, m.n>>]
         /\ m.header = o.hks /\ m.dh = o.dh /\ m.pn = 0 /\ m.key = <<o.sending, m.n>>
         /\ m.n \in Nat /\ m.n < o.ns
<1>1. PICK o : o = ratchet[Ratchet!Other(p)]
  OBVIOUS
<1>2. Ratchet!Other(p) \in Ratchet!Parties
  BY TwoParties
<1>3. o.dh \in Pairs /\ o.dh.party = Ratchet!Other(p) /\ o.dh.i = 0 /\ o.sending # Ratchet!Empty
  BY <1>1, <1>2 DEF RatchetTypes, StateOf, SharedInv
<1>4. /\ m = [from |-> m.from, header |-> m.header, dh |-> m.dh, pn |-> m.pn, n |-> m.n, key |-> m.key]
      /\ m.dh \in Pairs /\ m.dh.party = m.from /\ m.n \in Nat
  BY DEF RatchetTypes, Message
<1>5. m.dh.i <= 0 /\ m.pn = 0 /\ m.n < o.ns
  BY <1>1, <1>3 DEF SentInv, SharedInv
<1>6. m.dh = o.dh
  BY <1>3, <1>4, <1>5 DEF Pairs
<1>7. m.header = o.hks /\ m.key = <<o.sending, m.n>>
  BY <1>1, <1>3, <1>6 DEF SentInv
<1> QED
  BY <1>1, <1>4, <1>5, <1>6, <1>7

LEMMA ReceiveShared ==
  ASSUME RatchetTypes, SentInv, SharedInv, session # "roles", NEW p \in Ratchet!Parties,
         NEW t, StateOf(t, p), t.root = ratchet[p].root, t.dh = ratchet[p].dh,
         t.sending = ratchet[p].sending, t.receiving = ratchet[p].receiving,
         t.hks = ratchet[p].hks, t.hkr = ratchet[p].hkr, t.ns = ratchet[p].ns, t.pn = ratchet[p].pn,
         t.remote \in {ratchet[p].remote, ratchet[Ratchet!Other(p)].dh},
         t.nr <= ratchet[Ratchet!Other(p)].ns,
         \A k \in t.skipped : k.key = <<t.receiving, k.n>>,
         \A x \in network :
           x.from = Ratchet!Other(p) /\ x.n < t.nr =>
             x \in read' \/ x.key \in dropped' \/ Ratchet!SkippedFor(t, x) # {},
         read \subseteq read', dropped \subseteq dropped',
         ratchet' = [ratchet EXCEPT ![p] = t], network' = network, session' = session
  PROVE  SentInv' /\ TurnInv' /\ SharedInv'
<1> DEFINE s == ratchet[p]
<1>1. PICK q : q = Ratchet!Other(p)
  OBVIOUS
<1>2. q \in Ratchet!Parties /\ q # p /\ Ratchet!Other(q) = p /\ (\A x \in Ratchet!Parties : x \in {p, q})
  BY <1>1, TwoParties
<1>3. PICK o : o = ratchet[q]
  OBVIOUS
<1>4. ratchet'[p] = t /\ ratchet'[q] = o
  BY <1>2, <1>3 DEF RatchetTypes
<1>5. \A x \in network : x.from \in {p, q}
  BY <1>2 DEF RatchetTypes, Message
<1>6. SentInv'
  <2> SUFFICES ASSUME NEW x \in network
               PROVE  LET y == ratchet'[x.from] IN
                      /\ x.dh.i <= y.dh.i
                      /\ x.dh = y.dh /\ y.sending # Ratchet!Empty =>
                           x.header = y.hks /\ x.key = <<y.sending, x.n>>
    BY DEF SentInv
  <2>1. CASE x.from = p
    BY <2>1, <1>4 DEF SentInv
  <2>2. CASE x.from = q
    BY <2>2, <1>3, <1>4 DEF SentInv
  <2> QED
    BY <2>1, <2>2, <1>5
<1>7. /\ s.root = <<>> /\ s.dh.i = 0 /\ s.remote \in {Ratchet!NoPair, o.dh}
      /\ s.sending # Ratchet!Empty /\ s.receiving = o.sending
      /\ s.hkr = o.hks /\ s.pn = 0
  BY <1>1, <1>3 DEF SharedInv
<1>8. /\ o.root = <<>> /\ o.dh.i = 0 /\ o.remote \in {Ratchet!NoPair, s.dh}
      /\ o.sending # Ratchet!Empty /\ o.receiving = s.sending
      /\ o.hkr = s.hks /\ o.nr <= s.ns /\ o.pn = 0
      /\ \A k \in o.skipped : k.key = <<o.receiving, k.n>>
  BY <1>2, <1>3 DEF SharedInv
<1>9. ASSUME NEW x \in Ratchet!Parties
      PROVE  LET y == ratchet'[x]
                 z == ratchet'[Ratchet!Other(x)]
             IN /\ y.root = <<>> /\ y.dh.i = 0 /\ y.remote \in {Ratchet!NoPair, z.dh}
                /\ y.sending # Ratchet!Empty /\ y.receiving = z.sending
                /\ y.hkr = z.hks /\ y.nr <= z.ns /\ y.pn = 0
                /\ \A k \in y.skipped : k.key = <<y.receiving, k.n>>
  <2>1. CASE x = p
    BY <2>1, <1>1, <1>3, <1>4, <1>7
  <2>2. CASE x = q
    BY <2>2, <1>2, <1>4, <1>8
  <2> QED
    BY <2>1, <2>2, <1>2
<1>10. ASSUME NEW x \in network
       PROVE  LET y == ratchet'[Ratchet!Other(x.from)] IN
              /\ x.pn = 0 /\ x.n < ratchet'[x.from].ns
              /\ x.n < y.nr => x \in read' \/ x.key \in dropped' \/ Ratchet!SkippedFor(y, x) # {}
  <2>1. CASE x.from = p
    <3>1. x.pn = 0 /\ x.n < s.ns
          /\ (x.n < o.nr => x \in read \/ x.key \in dropped \/ Ratchet!SkippedFor(o, x) # {})
      BY <2>1, <1>1, <1>3 DEF SharedInv
    <3> QED
      BY <2>1, <3>1, <1>1, <1>4
  <2>2. CASE x.from = q
    <3>1. x.pn = 0 /\ x.n < o.ns
      BY <2>2, <1>3 DEF SharedInv
    <3> QED
      BY <2>2, <3>1, <1>1, <1>2, <1>4
  <2> QED
    BY <2>1, <2>2, <1>5
<1>11. SharedInv'
  BY <1>9, <1>10 DEF SharedInv
<1>12. TurnInv'
  BY DEF TurnInv
<1> QED
  BY <1>6, <1>11, <1>12

(* Nobody turns: the receiver at most records the other's key.               *)
LEMMA TurnedShared ==
  ASSUME RatchetTypes, SentInv, SharedInv, session # "roles", NEW p \in Ratchet!Parties,
         NEW m \in network, m.from = Ratchet!Other(p),
         NEW s, s = Ratchet!HeaderRead(ratchet[p], m), NEW t, t = Ratchet!Turned(s, m)
  PROVE  /\ s = ratchet[p] /\ ~Ratchet!NewKey(s, m) /\ m.dh # Ratchet!NoPair
         /\ StateOf(t, p) /\ Moved(s, t)
         /\ t.root = s.root /\ t.dh = s.dh /\ t.remote = m.dh /\ t.sending = s.sending
         /\ t.receiving = s.receiving /\ t.hks = s.hks /\ t.hkr = s.hkr
         /\ t.nhks = s.nhks /\ t.nhkr = s.nhkr
         /\ t.ns = s.ns /\ t.nr = s.nr /\ t.pn = s.pn /\ t.skipped = s.skipped
<1> DEFINE o == ratchet[Ratchet!Other(p)]
<1>1. m.header = o.hks /\ m.dh = o.dh /\ m.pn = 0
  BY SharedMessages
<1>2. s = ratchet[p]
  BY <1>1 DEF SharedInv, Ratchet!HeaderRead
<1>3. StateOf(s, p) /\ KeysKept(s) /\ s.remote \in {Ratchet!NoPair, m.dh}
  BY <1>1, <1>2 DEF RatchetTypes, SharedInv
<1>4. ~Ratchet!NewKey(s, m)
  BY <1>3 DEF Ratchet!NewKey
<1>5. m.dh \in Pairs /\ m.dh.party = Ratchet!Other(p)
  BY DEF RatchetTypes, Message
<1>6. m.dh # Ratchet!NoPair
  BY <1>5, TwoParties, PairIsSome
<1>7. StateRecord(s) /\ s.nr \in Nat
  BY <1>3 DEF StateOf
<1>8. Moved(s, t)
  BY <1>3, <1>4, <1>5, <1>7, RecordKeeps
<1>9. /\ StateRecord(t)
      /\ t.root = s.root /\ t.dh = s.dh /\ t.remote = m.dh /\ t.sending = s.sending
      /\ t.receiving = s.receiving /\ t.hks = s.hks /\ t.hkr = s.hkr
      /\ t.nhks = s.nhks /\ t.nhkr = s.nhkr
      /\ t.ns = s.ns /\ t.nr = s.nr /\ t.pn = s.pn /\ t.skipped = s.skipped
  BY <1>4, <1>7, TurnedState
<1>10. StateOf(t, p)
  BY <1>3, <1>5, <1>9 DEF StateOf
<1> QED
  BY <1>2, <1>4, <1>6, <1>8, <1>9, <1>10

LEMMA ReadSkippedKeepsRatchet ==
  ASSUME RatchetInv, NEW p \in Ratchet!Parties, Ratchet!ReadSkipped(p)
  PROVE  RatchetInv'
<1> DEFINE o == ratchet[p]
<1>1. RatchetTypes /\ SentInv /\ TurnInv /\ SharedInv
  BY DEF RatchetInv
<1>2. PICK m \in Ratchet!Given(p) :
        \E k \in Ratchet!SkippedFor(Ratchet!HeaderRead(o, m), m) :
          /\ ratchet' = [ratchet EXCEPT ![p] = Ratchet!TakeSkipped(Ratchet!HeaderRead(o, m), k)]
          /\ Ratchet!Body(m, k.key)
  BY DEF Ratchet!ReadSkipped
<1>3. PICK s : s = Ratchet!HeaderRead(o, m)
  OBVIOUS
<1>4. PICK k \in Ratchet!SkippedFor(s, m) :
        ratchet' = [ratchet EXCEPT ![p] = Ratchet!TakeSkipped(s, k)] /\ Ratchet!Body(m, k.key)
  BY <1>2, <1>3
<1>5. PICK t : t = Ratchet!TakeSkipped(s, k)
  OBVIOUS
<1>6. /\ ratchet' = [ratchet EXCEPT ![p] = t] /\ read' = (IF m.key = k.key THEN read \cup {m} ELSE read)
      /\ session' = session /\ network' = network /\ dropped' = dropped
  BY <1>4, <1>5 DEF Ratchet!Body, Ratchet!ReadSkipped
<1>7. m \in network /\ m.from = Ratchet!Other(p) /\ Ratchet!HeaderOpens(o, m) /\ m.n \in Nat
  BY <1>1 DEF Ratchet!Given, RatchetTypes, Message
<1>8. StateOf(o, p) /\ KeysKept(o)
  BY <1>1 DEF RatchetTypes
<1>9. StateOf(s, p) /\ KeysKept(s) /\ Quiet(o, s) /\ (\A x : Moved(s, x) => Moved(o, x))
  BY <1>3, <1>8, HeaderReadSame
<1>10. /\ StateOf(t, p) /\ Moved(s, t) /\ Used(t, m)
       /\ t.root = s.root /\ t.dh = s.dh /\ t.remote = s.remote /\ t.sending = s.sending
       /\ t.receiving = s.receiving /\ t.hks = s.hks /\ t.hkr = s.hkr
       /\ t.nhks = s.nhks /\ t.nhkr = s.nhkr
       /\ t.ns = s.ns /\ t.nr = s.nr /\ t.pn = s.pn /\ t.skipped = s.skipped \ {k}
  BY <1>4, <1>5, <1>7, <1>9, TakenState
<1>11. RatchetTypes'
  BY <1>1, <1>6, <1>7, <1>9, <1>10, ReceiveTypes
<1>12. CASE session = "roles"
  <2>1. Quiet(o, t)
    BY <1>9, <1>10 DEF Quiet
  <2>2. SentInv' /\ TurnInv' /\ SharedInv'
    BY <1>1, <1>6, <1>7, <1>12, <2>1, ReceiveInRoles
  <2> QED
    BY <1>11, <2>2 DEF RatchetInv
<1>13. CASE session # "roles"
  <2>1. PICK q : q = ratchet[Ratchet!Other(p)]
    OBVIOUS
  <2>2. s = o
    BY <1>1, <1>3, <1>7, <1>13, TurnedShared
  <2>3. s.nr <= q.ns /\ s.receiving = q.sending /\ \A l \in s.skipped : l.key = <<s.receiving, l.n>>
    BY <1>1, <1>13, <2>1, <2>2 DEF SharedInv
  <2>4. k \in s.skipped /\ k.dh = m.dh /\ k.n = m.n
    BY DEF Ratchet!SkippedFor
  <2>5. m.key = k.key
    <3>1. m.key = <<q.sending, m.n>>
      BY <1>1, <1>7, <1>13, <2>1, SharedMessages
    <3> QED
      BY <3>1, <2>3, <2>4
  <2>6. ASSUME NEW x \in network, x.from = Ratchet!Other(p), x.n < t.nr
        PROVE  x \in read' \/ x.key \in dropped' \/ Ratchet!SkippedFor(t, x) # {}
    <3>1. x \in read \/ x.key \in dropped \/ Ratchet!SkippedFor(s, x) # {}
      <4>1. x.n < s.nr /\ Ratchet!Other(x.from) = p
        BY <1>10, <2>6, TwoParties
      <4> QED
        BY <4>1, <1>1, <1>13, <2>2 DEF SharedInv
    <3>2. CASE x \in read \/ x.key \in dropped
      BY <3>2, <1>6
    <3>3. CASE Ratchet!SkippedFor(s, x) # {} /\ k \notin Ratchet!SkippedFor(s, x)
      BY <3>3, <1>10 DEF Ratchet!SkippedFor
    <3>4. CASE k \in Ratchet!SkippedFor(s, x)
      <4>1. x.n = m.n
        BY <3>4, <2>4 DEF Ratchet!SkippedFor
      <4>2. x = [from |-> Ratchet!Other(p), header |-> q.hks, dh |-> q.dh, pn |-> 0, n |-> x.n,
                 key |-> <<q.sending, x.n>>]
        BY <1>1, <1>13, <2>1, <2>6, SharedMessages
      <4>3. m = [from |-> Ratchet!Other(p), header |-> q.hks, dh |-> q.dh, pn |-> 0, n |-> m.n,
                 key |-> <<q.sending, m.n>>]
        BY <1>1, <1>7, <1>13, <2>1, SharedMessages
      <4>4. x = m
        BY <4>1, <4>2, <4>3
      <4> QED
        BY <4>4, <1>6, <2>5
    <3> QED
      BY <3>1, <3>2, <3>3, <3>4
  <2>7. \A l \in t.skipped : l.key = <<t.receiving, l.n>>
    BY <1>10, <2>3
  <2>8. read \subseteq read' /\ dropped \subseteq dropped'
    BY <1>6
  <2>9. SentInv' /\ TurnInv' /\ SharedInv'
    BY <1>1, <1>6, <1>10, <1>13, <2>1, <2>2, <2>3, <2>6, <2>7, <2>8, ReceiveShared
  <2> QED
    BY <1>11, <2>9 DEF RatchetInv
<1> QED
  BY <1>12, <1>13

LEMMA RefuseJumpKeepsRatchet ==
  ASSUME RatchetInv, NEW p \in Ratchet!Parties, Ratchet!RefuseJump(p)
  PROVE  RatchetInv'
<1> DEFINE o == ratchet[p]
<1>1. RatchetTypes /\ SentInv /\ TurnInv /\ SharedInv
  BY DEF RatchetInv
<1>2. PICK m \in Ratchet!Given(p) :
        /\ Ratchet!JumpTooFar(Ratchet!HeaderRead(o, m), m)
        /\ ratchet' = [ratchet EXCEPT ![p] = Ratchet!HeaderRead(o, m)]
  BY DEF Ratchet!RefuseJump
<1>3. PICK s : s = Ratchet!HeaderRead(o, m)
  OBVIOUS
<1>4. /\ ratchet' = [ratchet EXCEPT ![p] = s] /\ read' = read
      /\ session' = session /\ network' = network /\ dropped' = dropped
  BY <1>2, <1>3 DEF Ratchet!RefuseJump
<1>5. m \in network /\ m.from = Ratchet!Other(p) /\ Ratchet!HeaderOpens(o, m)
  BY DEF Ratchet!Given
<1>6. StateOf(o, p) /\ KeysKept(o)
  BY <1>1 DEF RatchetTypes
<1>7. StateOf(s, p) /\ Quiet(o, s) /\ Moved(o, s)
  BY <1>3, <1>6, HeaderReadSame
<1>8. RatchetTypes'
  BY <1>1, <1>4, <1>5, <1>7, ReceiveTypes
<1>9. session = "roles"
  <2> SUFFICES ASSUME session # "roles" PROVE FALSE
    OBVIOUS
  <2>1. ~Ratchet!NewKey(s, m)
    BY <1>1, <1>3, <1>5, TurnedShared
  <2> QED
    BY <1>2, <1>3, <2>1 DEF Ratchet!JumpTooFar
<1>10. SentInv' /\ TurnInv' /\ SharedInv'
  BY <1>1, <1>4, <1>5, <1>7, <1>9, ReceiveInRoles
<1> QED
  BY <1>8, <1>10 DEF RatchetInv

LEMMA RefuseKeepsRatchet ==
  ASSUME RatchetInv, NEW p \in Ratchet!Parties, Ratchet!Refuse(p)
  PROVE  RatchetInv'
<1> DEFINE o == ratchet[p]
<1>1. RatchetTypes /\ SentInv /\ TurnInv /\ SharedInv
  BY DEF RatchetInv
<1>2. PICK m \in Ratchet!Given(p) :
        /\ ratchet' = [ratchet EXCEPT ![p] = Ratchet!Turned(Ratchet!HeaderRead(o, m), m)]
        /\ dropped' = dropped \cup Ratchet!DroppedByTurn(Ratchet!HeaderRead(o, m), m)
  BY DEF Ratchet!Refuse
<1>3. PICK s : s = Ratchet!HeaderRead(o, m)
  OBVIOUS
<1>4. PICK t : t = Ratchet!Turned(s, m)
  OBVIOUS
<1>5. /\ ratchet' = [ratchet EXCEPT ![p] = t] /\ read' = read
      /\ session' = session /\ network' = network /\ dropped \subseteq dropped'
  BY <1>2, <1>3, <1>4 DEF Ratchet!Refuse
<1>6. m \in network /\ m.from = Ratchet!Other(p) /\ Ratchet!HeaderOpens(o, m)
  BY DEF Ratchet!Given
<1>7. CASE session = "roles"
  <2>1. /\ StateOf(t, p) /\ Moved(o, t)
        /\ Quiet(o, t) \/ (m.dh # o.remote /\ TurnsOver(o, m, t))
    BY <1>1, <1>3, <1>4, <1>6, <1>7, TurnedInRoles
  <2>2. RatchetTypes'
    BY <1>1, <1>5, <1>6, <2>1, ReceiveTypes
  <2>3. SentInv' /\ TurnInv' /\ SharedInv'
    BY <1>1, <1>5, <1>6, <1>7, <2>1, ReceiveInRoles
  <2> QED
    BY <2>2, <2>3 DEF RatchetInv
<1>8. CASE session # "roles"
  <2>1. PICK q : q = ratchet[Ratchet!Other(p)]
    OBVIOUS
  <2>2. /\ s = o /\ StateOf(t, p) /\ Moved(s, t)
        /\ t.root = s.root /\ t.dh = s.dh /\ t.remote = m.dh /\ t.sending = s.sending
        /\ t.receiving = s.receiving /\ t.hks = s.hks /\ t.hkr = s.hkr
        /\ t.ns = s.ns /\ t.nr = s.nr /\ t.pn = s.pn /\ t.skipped = s.skipped
    BY <1>1, <1>3, <1>4, <1>6, <1>8, TurnedShared
  <2>3. RatchetTypes'
    BY <1>1, <1>5, <1>6, <2>2, ReceiveTypes
  <2>4. m.dh = q.dh
    BY <1>1, <1>6, <1>8, <2>1, SharedMessages
  <2>5. s.nr <= q.ns /\ \A l \in s.skipped : l.key = <<s.receiving, l.n>>
    BY <1>1, <1>8, <2>1, <2>2 DEF SharedInv
  <2>6. ASSUME NEW x \in network, x.from = Ratchet!Other(p), x.n < t.nr
        PROVE  x \in read' \/ x.key \in dropped' \/ Ratchet!SkippedFor(t, x) # {}
    <3>1. x.n < s.nr /\ Ratchet!Other(x.from) = p
      BY <2>2, <2>6, TwoParties
    <3>2. x \in read \/ x.key \in dropped \/ Ratchet!SkippedFor(s, x) # {}
      BY <3>1, <1>1, <1>8, <2>2 DEF SharedInv
    <3> QED
      BY <3>2, <1>5, <2>2 DEF Ratchet!SkippedFor
  <2>7. /\ t.root = o.root /\ t.dh = o.dh /\ t.remote \in {o.remote, q.dh} /\ t.sending = o.sending
        /\ t.receiving = o.receiving /\ t.hks = o.hks /\ t.hkr = o.hkr
        /\ t.ns = o.ns /\ t.nr <= q.ns /\ t.pn = o.pn
        /\ \A l \in t.skipped : l.key = <<t.receiving, l.n>>
    BY <2>2, <2>4, <2>5
  <2>8. read \subseteq read'
    BY <1>5
  <2>9. StateOf(t, p)
    BY <2>2
  <2>10. SentInv' /\ TurnInv' /\ SharedInv'
    BY <1>1, <1>5, <1>8, <2>1, <2>6, <2>7, <2>8, <2>9, ReceiveShared
  <2> QED
    BY <2>3, <2>10 DEF RatchetInv
<1> QED
  BY <1>7, <1>8

LEMMA ReadNextKeepsRatchet ==
  ASSUME RatchetInv, NEW p \in Ratchet!Parties, Ratchet!ReadNext(p)
  PROVE  RatchetInv'
<1> DEFINE o == ratchet[p]
<1>1. RatchetTypes /\ SentInv /\ TurnInv /\ SharedInv
  BY DEF RatchetInv
<1>2. PICK m \in Ratchet!Given(p) :
        LET s == Ratchet!HeaderRead(o, m)
            u == Ratchet!Turned(s, m)
        IN /\ Ratchet!SkippedFor(s, m) = {} /\ ~Ratchet!OutOfRange(u, m)
           /\ ratchet' = [ratchet EXCEPT ![p] = Ratchet!Advanced(u, m)]
           /\ dropped' = dropped \cup Ratchet!DroppedByTurn(s, m) \cup Ratchet!Dropped(u, m.n)
           /\ Ratchet!Body(m, <<u.receiving, m.n>>)
  BY DEF Ratchet!ReadNext
<1>3. PICK s : s = Ratchet!HeaderRead(o, m)
  OBVIOUS
<1>4. PICK u : u = Ratchet!Turned(s, m)
  OBVIOUS
<1>5. PICK t : t = Ratchet!Advanced(u, m)
  OBVIOUS
<1>6. /\ Ratchet!SkippedFor(s, m) = {} /\ ~Ratchet!OutOfRange(u, m)
      /\ ratchet' = [ratchet EXCEPT ![p] = t]
      /\ dropped' = dropped \cup Ratchet!DroppedByTurn(s, m) \cup Ratchet!Dropped(u, m.n)
      /\ read' = (IF m.key = <<u.receiving, m.n>> THEN read \cup {m} ELSE read)
      /\ session' = session /\ network' = network
  BY <1>2, <1>3, <1>4, <1>5 DEF Ratchet!ReadNext, Ratchet!Body
<1>7. m \in network /\ m.from = Ratchet!Other(p) /\ Ratchet!HeaderOpens(o, m) /\ m.n \in Nat
  BY <1>1 DEF Ratchet!Given, RatchetTypes, Message
<1>8. /\ StateOf(u, p) /\ Moved(o, u) /\ u.remote = m.dh /\ m.dh # Ratchet!NoPair
      /\ \A k \in u.skipped : k \in s.skipped \/ k.dh # m.dh
  <2>1. CASE session = "roles"
    BY <1>1, <1>3, <1>4, <1>7, <2>1, TurnedInRoles
  <2>2. CASE session # "roles"
    BY <1>1, <1>3, <1>4, <1>7, <2>2, TurnedShared
  <2> QED
    BY <2>1, <2>2
<1>9. Ratchet!SkippedFor(u, m) = {}
  BY <1>6, <1>8 DEF Ratchet!SkippedFor
<1>10. KeysKept(u) /\ m.dh = u.remote /\ u.remote # Ratchet!NoPair /\ StateOf(u, p)
  BY <1>8 DEF Moved
<1>11. /\ StateOf(t, p) /\ Moved(u, t) /\ Used(t, m)
       /\ t.root = u.root /\ t.dh = u.dh /\ t.remote = u.remote /\ t.sending = u.sending
       /\ t.receiving = u.receiving /\ t.hks = u.hks /\ t.hkr = u.hkr
       /\ t.nhks = u.nhks /\ t.nhkr = u.nhkr
       /\ t.ns = u.ns /\ t.nr = m.n + 1 /\ t.pn = u.pn
       /\ t.skipped = u.skipped
                      \cup {[dh |-> u.remote, n |-> i, key |-> <<u.receiving, i>>] : i \in Ratchet!Kept(u, m.n)}
  BY <1>5, <1>6, <1>7, <1>9, <1>10, ReadState
<1>12. Moved(o, t)
  BY <1>8, <1>11, MovedTwice
<1>13. read' = read \/ (read' = read \cup {m} /\ Used(t, m))
  BY <1>6, <1>11
<1>14. RatchetTypes'
  <2>1. StateOf(t, p)
    BY <1>11
  <2> QED
    BY <1>1, <1>6, <1>7, <1>12, <1>13, <2>1, ReceiveTypes
<1>15. CASE session = "roles"
  <2>1. Quiet(o, u) \/ (m.dh # o.remote /\ TurnsOver(o, m, u))
    BY <1>1, <1>3, <1>4, <1>7, <1>15, TurnedInRoles
  <2>2. Quiet(o, t) \/ (m.dh # o.remote /\ TurnsOver(o, m, t))
    BY <1>11, <2>1, SameChain
  <2>3. SentInv' /\ TurnInv' /\ SharedInv'
    BY <1>1, <1>6, <1>7, <1>15, <2>2, ReceiveInRoles
  <2> QED
    BY <1>14, <2>3 DEF RatchetInv
<1>16. CASE session # "roles"
  <2>1. PICK q : q = ratchet[Ratchet!Other(p)]
    OBVIOUS
  <2>2. /\ s = o /\ u.root = s.root /\ u.dh = s.dh /\ u.sending = s.sending
        /\ u.receiving = s.receiving /\ u.hks = s.hks /\ u.hkr = s.hkr
        /\ u.ns = s.ns /\ u.nr = s.nr /\ u.pn = s.pn /\ u.skipped = s.skipped
    BY <1>1, <1>3, <1>4, <1>7, <1>16, TurnedShared
  <2>3. m.dh = q.dh /\ m.key = <<q.sending, m.n>> /\ m.n < q.ns
    BY <1>1, <1>7, <1>16, <2>1, SharedMessages
  <2>4. o.receiving = q.sending /\ \A l \in o.skipped : l.key = <<o.receiving, l.n>>
    BY <1>1, <1>16, <2>1 DEF SharedInv
  <2>5. q.ns \in Nat /\ u.nr \in Nat
    BY <1>1, <1>8, <2>1, TwoParties DEF RatchetTypes, StateOf
  <2>6. read' = read \cup {m} /\ dropped \subseteq dropped' /\ Ratchet!Dropped(u, m.n) \subseteq dropped'
    BY <1>6, <2>2, <2>3, <2>4
  <2>7. ASSUME NEW x \in network, x.from = Ratchet!Other(p), x.n < t.nr
        PROVE  x \in read' \/ x.key \in dropped' \/ Ratchet!SkippedFor(t, x) # {}
    <3>1. /\ x = [from |-> Ratchet!Other(p), header |-> q.hks, dh |-> q.dh, pn |-> 0, n |-> x.n,
                  key |-> <<q.sending, x.n>>]
          /\ x.dh = q.dh /\ x.key = <<q.sending, x.n>> /\ x.n \in Nat
      BY <1>1, <1>16, <2>1, <2>7, SharedMessages
    <3>2. CASE x.n < u.nr
      <4>1. x.n < o.nr /\ Ratchet!Other(x.from) = p
        BY <2>2, <2>7, <3>2, TwoParties
      <4>2. x \in read \/ x.key \in dropped \/ Ratchet!SkippedFor(o, x) # {}
        BY <4>1, <1>1, <1>16 DEF SharedInv
      <4>3. Ratchet!SkippedFor(o, x) \subseteq Ratchet!SkippedFor(t, x)
        BY <1>11, <2>2 DEF Ratchet!SkippedFor
      <4> QED
        BY <4>2, <4>3, <2>6
    <3>3. CASE x.n \in u.nr..(m.n - 1)
      <4>1. x.n \in Ratchet!Skipped(u, m.n)
        BY <3>3 DEF Ratchet!Skipped
      <4>2. CASE x.n \in Ratchet!Kept(u, m.n)
        <5>1. PICK l : l = [dh |-> u.remote, n |-> x.n, key |-> <<u.receiving, x.n>>]
          OBVIOUS
        <5>2. l \in t.skipped
          BY <1>11, <4>2, <5>1
        <5>3. l.dh = x.dh /\ l.n = x.n
          BY <1>8, <2>3, <3>1, <5>1
        <5> QED
          BY <5>2, <5>3 DEF Ratchet!SkippedFor
      <4>3. CASE x.n \notin Ratchet!Kept(u, m.n)
        <5>1. <<u.receiving, x.n>> \in Ratchet!Dropped(u, m.n)
          BY <4>1, <4>3 DEF Ratchet!Dropped
        <5>2. x.key = <<u.receiving, x.n>>
          BY <2>2, <2>4, <3>1
        <5> QED
          BY <5>1, <5>2, <2>6
      <4> QED
        BY <4>2, <4>3
    <3>4. CASE x.n = m.n
      <4>1. m = [from |-> Ratchet!Other(p), header |-> q.hks, dh |-> q.dh, pn |-> 0, n |-> m.n,
                 key |-> <<q.sending, m.n>>]
        BY <1>1, <1>7, <1>16, <2>1, SharedMessages
      <4>2. x = m
        BY <4>1, <3>1, <3>4
      <4> QED
        BY <4>2, <2>6
    <3> QED
      BY <1>7, <1>11, <2>5, <2>7, <3>1, <3>2, <3>3, <3>4
  <2>8. \A l \in t.skipped : l.key = <<t.receiving, l.n>>
    BY <1>11, <2>2, <2>4
  <2>9. t.nr <= q.ns
    BY <1>7, <1>11, <2>3, <2>5
  <2>10. /\ t.root = o.root /\ t.dh = o.dh /\ t.remote \in {o.remote, q.dh} /\ t.sending = o.sending
         /\ t.receiving = o.receiving /\ t.hks = o.hks /\ t.hkr = o.hkr
         /\ t.ns = o.ns /\ t.pn = o.pn
    BY <1>8, <1>11, <2>2, <2>3
  <2>11. StateOf(t, p) /\ read \subseteq read' /\ dropped \subseteq dropped'
    BY <1>11, <2>6
  <2>12. SentInv' /\ TurnInv' /\ SharedInv'
    BY <1>1, <1>6, <1>16, <2>1, <2>7, <2>8, <2>9, <2>10, <2>11, ReceiveShared
  <2> QED
    BY <1>14, <2>12 DEF RatchetInv
<1> QED
  BY <1>15, <1>16

LEMMA NewWithRoleState ==
  ASSUME NEW p, NEW s, s = Ratchet!NewWithRole(p)
  PROVE  /\ StateRecord(s)
         /\ s.root = Ratchet!FirstRoot /\ s.dh = Ratchet!Pair(p, 0)
         /\ s.remote = Ratchet!Pair(Ratchet!Other(p), 0)
         /\ s.nhks = Ratchet!Key("next header", Ratchet!FirstRoot)
         /\ s.nhkr = Ratchet!Key("next header", Ratchet!FirstRoot)
         /\ s.ns = 0 /\ s.nr = 0 /\ s.pn = 0 /\ s.skipped = {}
         /\ p = "alice" => s.sending = Ratchet!Key("chain", Ratchet!FirstRoot)
                           /\ s.hks = Ratchet!Key("header", Ratchet!FirstRoot)
         /\ p # "alice" => s.sending = Ratchet!Empty
BY DEF Ratchet!NewWithRole, StateRecord, Fields

LEMMA NewFromSharedState ==
  ASSUME NEW p, NEW s, s = Ratchet!NewFromSharedSecret(p)
  PROVE  /\ StateRecord(s)
         /\ s.root = <<>> /\ s.dh = Ratchet!Pair(p, 0) /\ s.remote = Ratchet!NoPair
         /\ s.ns = 0 /\ s.nr = 0 /\ s.pn = 0 /\ s.skipped = {}
         /\ s.sending = Ratchet!Key("chain of " \o p, <<>>)
         /\ s.receiving = Ratchet!Key("chain of " \o Ratchet!Other(p), <<>>)
         /\ s.hks = Ratchet!Key("header of " \o p, <<>>)
         /\ s.hkr = Ratchet!Key("header of " \o Ratchet!Other(p), <<>>)
BY DEF Ratchet!NewFromSharedSecret, StateRecord, Fields

LEMMA RatchetInitInv == ASSUME Ratchet!Init PROVE RatchetInv
<1>1. /\ session \in Sessions /\ network = {} /\ read = {} /\ dropped = {}
      /\ ratchet = [p \in Ratchet!Parties |-> IF session = "roles" THEN Ratchet!NewWithRole(p)
                                              ELSE Ratchet!NewFromSharedSecret(p)]
  BY DEF Ratchet!Init
<1>2. SentInv
  BY <1>1 DEF SentInv
<1>3. \A p \in Ratchet!Parties : Ratchet!Pair(p, 0) \in Pairs /\ Ratchet!Pair(p, 0).party = p
                                 /\ Ratchet!Pair(p, 0).i = 0
  BY DEF Ratchet!Pair, Pairs, Ratchet!Parties
<1>4. <<>> \in Seq(SUBSET Pairs) /\ Len(<<>>) = 0
  OBVIOUS
<1>5. "alice" \in Ratchet!Parties /\ "bob" \in Ratchet!Parties
  BY DEF Ratchet!Parties
<1>6. Ratchet!FirstRoot \in Seq(SUBSET Pairs) /\ Len(Ratchet!FirstRoot) \in Nat
  BY <1>3, <1>4, <1>5, RootFacts DEF Ratchet!FirstRoot
<1>7. Ratchet!NoPair \in Pairs
  BY DEF Ratchet!NoPair, Pairs
<1>8. IsFiniteSet({}) /\ Cardinality({}) <= MaxSkip
  BY FS_EmptySet, RatchetAssumption
<1>9. CASE session = "roles"
  <2>1. \A p \in Ratchet!Parties : ratchet[p] = Ratchet!NewWithRole(p)
    BY <1>1, <1>9
  <2>2. ASSUME NEW p \in Ratchet!Parties
        PROVE  LET s == ratchet[p] IN
               /\ StateRecord(s)
               /\ s.root = Ratchet!FirstRoot /\ s.dh = Ratchet!Pair(p, 0)
               /\ s.remote = Ratchet!Pair(Ratchet!Other(p), 0)
               /\ s.nhks = Ratchet!Key("next header", Ratchet!FirstRoot)
               /\ s.nhkr = Ratchet!Key("next header", Ratchet!FirstRoot)
               /\ s.ns = 0 /\ s.nr = 0 /\ s.pn = 0 /\ s.skipped = {}
               /\ p = "alice" => s.sending = Ratchet!Key("chain", Ratchet!FirstRoot)
                                 /\ s.hks = Ratchet!Key("header", Ratchet!FirstRoot)
               /\ p # "alice" => s.sending = Ratchet!Empty
    <3>1. PICK s : s = ratchet[p]
      OBVIOUS
    <3>2. s = Ratchet!NewWithRole(p)
      BY <2>1, <3>1
    <3>3. /\ StateRecord(s)
          /\ s.root = Ratchet!FirstRoot /\ s.dh = Ratchet!Pair(p, 0)
          /\ s.remote = Ratchet!Pair(Ratchet!Other(p), 0)
          /\ s.nhks = Ratchet!Key("next header", Ratchet!FirstRoot)
          /\ s.nhkr = Ratchet!Key("next header", Ratchet!FirstRoot)
          /\ s.ns = 0 /\ s.nr = 0 /\ s.pn = 0 /\ s.skipped = {}
          /\ p = "alice" => s.sending = Ratchet!Key("chain", Ratchet!FirstRoot)
                            /\ s.hks = Ratchet!Key("header", Ratchet!FirstRoot)
          /\ p # "alice" => s.sending = Ratchet!Empty
      BY <3>2, NewWithRoleState
    <3> QED
      BY <3>1, <3>3
  <2>3. ASSUME NEW p \in Ratchet!Parties
        PROVE  StateOf(ratchet[p], p) /\ KeysKept(ratchet[p]) /\ ratchet[p].remote # Ratchet!NoPair
    <3>1. ratchet[p].remote \in Pairs /\ ratchet[p].remote.party = Ratchet!Other(p)
          /\ ratchet[p].remote # Ratchet!NoPair
      <4>1. Ratchet!Other(p) \in Ratchet!Parties /\ ratchet[p].remote = Ratchet!Pair(Ratchet!Other(p), 0)
        BY <2>2, TwoParties
      <4>2. ratchet[p].remote \in Pairs /\ ratchet[p].remote.party = Ratchet!Other(p)
        BY <4>1, <1>3
      <4> QED
        BY <4>1, <4>2, PairIsSome
    <3>2. StateOf(ratchet[p], p)
      <4>1. StateRecord(ratchet[p]) /\ ratchet[p].root = Ratchet!FirstRoot
            /\ ratchet[p].dh = Ratchet!Pair(p, 0)
            /\ ratchet[p].ns = 0 /\ ratchet[p].nr = 0 /\ ratchet[p].pn = 0
        BY <2>2
      <4>2. 0 \in Nat
        OBVIOUS
      <4> QED
        BY <1>3, <1>6, <3>1, <4>1, <4>2 DEF StateOf
    <3>3. KeysKept(ratchet[p])
      BY <1>8, <2>2, <3>1 DEF KeysKept
    <3> QED
      BY <3>1, <3>2, <3>3
  <2>4. RatchetTypes
    <3>1. DOMAIN ratchet = Ratchet!Parties
      BY <1>1
    <3> QED
      BY <1>1, <2>3, <3>1 DEF RatchetTypes
  <2>5. Level
    <3>1. Ratchet!Other("alice") = "bob" /\ Ratchet!Other("bob") = "alice"
      BY DEF Ratchet!Other
    <3>2. ratchet["alice"].sending # Ratchet!Empty /\ ratchet["bob"].sending = Ratchet!Empty
      <4>1. Ratchet!Key("chain", Ratchet!FirstRoot) # Ratchet!Empty
        BY KeyFacts
      <4> QED
        BY <1>5, <2>2, <4>1
    <3> QED
      BY <1>5, <2>2, <3>1, <3>2 DEF Level
  <2>6. ASSUME NEW p \in Ratchet!Parties PROVE Derived(ratchet[p])
    <3>1. PICK k : k = Ratchet!Key("next header", Ratchet!FirstRoot)
      OBVIOUS
    <3>2. k # Ratchet!Empty /\ k[1] = "next header" /\ k[2] = Ratchet!FirstRoot
      BY <3>1, KeyFacts
    <3>3. ratchet[p].nhks = k /\ ratchet[p].root = Ratchet!FirstRoot
      BY <2>2, <3>1
    <3>4. PICK n \in Nat : n = Len(Ratchet!FirstRoot)
      BY <1>6
    <3>5. n <= n
      OBVIOUS
    <3>6. ratchet[p].sending # Ratchet!Empty =>
            /\ ratchet[p].sending = Ratchet!Key("chain", Ratchet!FirstRoot)
            /\ Earlier(ratchet[p].hks, Ratchet!FirstRoot)
      <4>1. Earlier(Ratchet!Key("header", Ratchet!FirstRoot), Ratchet!FirstRoot)
        BY KeyFacts DEF Earlier
      <4> QED
        BY <2>2, <4>1
    <3>7. ratchet[p].remote # Ratchet!NoPair
      BY <2>3
    <3> QED
      BY <3>2, <3>3, <3>4, <3>5, <3>6, <3>7 DEF Derived
  <2>7. TurnInv
    BY <1>1, <2>5, <2>6 DEF TurnInv, InTurns
  <2>8. SharedInv
    BY <1>9 DEF SharedInv
  <2> QED
    BY <1>2, <2>4, <2>7, <2>8 DEF RatchetInv
<1>10. CASE session # "roles"
  <2>1. \A p \in Ratchet!Parties : ratchet[p] = Ratchet!NewFromSharedSecret(p)
    BY <1>1, <1>10
  <2>2. ASSUME NEW p \in Ratchet!Parties
        PROVE  LET s == ratchet[p] IN
               /\ StateRecord(s)
               /\ s.root = <<>> /\ s.dh = Ratchet!Pair(p, 0) /\ s.remote = Ratchet!NoPair
               /\ s.ns = 0 /\ s.nr = 0 /\ s.pn = 0 /\ s.skipped = {}
               /\ s.sending = Ratchet!Key("chain of " \o p, <<>>)
               /\ s.receiving = Ratchet!Key("chain of " \o Ratchet!Other(p), <<>>)
               /\ s.hks = Ratchet!Key("header of " \o p, <<>>)
               /\ s.hkr = Ratchet!Key("header of " \o Ratchet!Other(p), <<>>)
    BY <2>1, NewFromSharedState
  <2>3. ASSUME NEW p \in Ratchet!Parties PROVE StateOf(ratchet[p], p) /\ KeysKept(ratchet[p])
    <3>1. StateOf(ratchet[p], p)
      <4>1. StateRecord(ratchet[p]) /\ ratchet[p].root = <<>>
            /\ ratchet[p].dh = Ratchet!Pair(p, 0) /\ ratchet[p].remote = Ratchet!NoPair
            /\ ratchet[p].ns = 0 /\ ratchet[p].nr = 0 /\ ratchet[p].pn = 0
        BY <2>2
      <4>2. 0 \in Nat
        OBVIOUS
      <4> QED
        BY <1>3, <1>4, <1>7, <4>1, <4>2 DEF StateOf
    <3>2. KeysKept(ratchet[p])
      BY <1>8, <2>2 DEF KeysKept
    <3> QED
      BY <3>1, <3>2
  <2>4. RatchetTypes
    <3>1. DOMAIN ratchet = Ratchet!Parties
      BY <1>1
    <3> QED
      BY <1>1, <2>3, <3>1 DEF RatchetTypes
  <2>5. TurnInv
    BY <1>10 DEF TurnInv
  <2>6. ASSUME NEW p \in Ratchet!Parties
        PROVE  LET s == ratchet[p]
                   t == ratchet[Ratchet!Other(p)]
               IN /\ s.root = <<>> /\ s.dh.i = 0 /\ s.remote \in {Ratchet!NoPair, t.dh}
                  /\ s.sending # Ratchet!Empty /\ s.receiving = t.sending
                  /\ s.hkr = t.hks /\ s.nr <= t.ns /\ s.pn = 0
                  /\ \A k \in s.skipped : k.key = <<s.receiving, k.n>>
    <3>1. Ratchet!Other(p) \in Ratchet!Parties
      BY TwoParties
    <3>2. ratchet[p].nr <= ratchet[Ratchet!Other(p)].ns
      <4>1. ratchet[p].nr = 0 /\ ratchet[Ratchet!Other(p)].ns = 0
        BY <2>2, <3>1
      <4> QED
        BY <4>1
    <3>3. ratchet[p].sending # Ratchet!Empty
      <4>1. PICK l : l = "chain of " \o p
        OBVIOUS
      <4>2. ratchet[p].sending = Ratchet!Key(l, <<>>)
        BY <2>2, <4>1
      <4> QED
        BY <4>2, KeyFacts
    <3>4. LET s == ratchet[p]
              t == ratchet[Ratchet!Other(p)]
          IN s.receiving = t.sending /\ s.hkr = t.hks
      BY <2>2, <3>1
    <3> QED
      BY <1>3, <2>2, <3>2, <3>3, <3>4
  <2>7. SharedInv
    BY <1>1, <2>6 DEF SharedInv
  <2> QED
    BY <1>2, <2>4, <2>5, <2>7 DEF RatchetInv
<1> QED
  BY <1>9, <1>10

LEMMA RatchetInvStep == ASSUME RatchetInv, [Ratchet!Next]_ratchetVars PROVE RatchetInv'
<1>1. CASE UNCHANGED ratchetVars
  BY <1>1 DEF ratchetVars, RatchetInv, RatchetTypes, SentInv, TurnInv, SharedInv, InTurns, Level, Ahead
<1>2. ASSUME NEW p \in Ratchet!Parties,
             \/ Ratchet!Send(p) \/ Ratchet!ReadSkipped(p) \/ Ratchet!RefuseJump(p)
             \/ Ratchet!Refuse(p) \/ Ratchet!ReadNext(p)
      PROVE  RatchetInv'
  BY <1>2, SendKeepsRatchet, ReadSkippedKeepsRatchet, RefuseJumpKeepsRatchet, RefuseKeepsRatchet,
     ReadNextKeepsRatchet
<1> QED
  BY <1>1, <1>2 DEF Ratchet!Next

(* The strengthening of SessionSound: the two parties are level or one of    *)
(* them is one turn ahead, every header key older than the root is known to  *)
(* be older, and a number that has been passed has its key kept, its message *)
(* read, or is on a chain that is over.                                      *)
THEOREM RatchetInductive == PartSpec => []RatchetInv
<1>1. PartInit => RatchetInv
  BY RatchetInitInv DEF PartInit
<1>2. RatchetInv /\ [PartNext]_partVars => RatchetInv'
  <2> SUFFICES ASSUME RatchetInv, [PartNext]_partVars PROVE RatchetInv'
    OBVIOUS
  <2>1. [Ratchet!Next]_ratchetVars
    BY DEF PartNext, partVars, ratchetVars
  <2> QED
    BY <2>1, RatchetInvStep
<1> QED
  BY <1>1, <1>2, PTL DEF PartSpec

-----------------------------------------------------------------------------
(* What the inductive invariant says of the promises of the session.         *)
LEMMA RatchetIsTyped == ASSUME RatchetInv PROVE Ratchet!TypeOK
<1>1. session \in Sessions /\ read \subseteq network
  BY DEF RatchetInv, RatchetTypes
<1>2. ASSUME NEW p \in Ratchet!Parties
      PROVE  /\ ratchet[p].dh.party = p
             /\ ratchet[p].remote.party \in {Ratchet!Other(p), "none"}
             /\ {ratchet[p].ns, ratchet[p].nr, ratchet[p].pn} \subseteq Nat
             /\ Ratchet!Cardinality(ratchet[p].skipped) <= MaxSkip
  <2>1. StateOf(ratchet[p], p) /\ KeysKept(ratchet[p])
    BY DEF RatchetInv, RatchetTypes
  <2>2. Ratchet!Cardinality(ratchet[p].skipped) <= MaxSkip
    BY <2>1, RatchetCardinality DEF KeysKept
  <2>3. Ratchet!NoPair.party = "none"
    BY DEF Ratchet!NoPair
  <2> QED
    BY <2>1, <2>2, <2>3 DEF StateOf
<1> QED
  BY <1>1, <1>2 DEF Ratchet!TypeOK

LEMMA RootExtends ==
  ASSUME NEW r \in Seq(SUBSET Pairs), NEW a \in Pairs, NEW b \in Pairs
  PROVE  Ratchet!Extends(r, Ratchet!Root(r, a, b))
<1>1. PICK e \in SUBSET Pairs : e = {a, b}
  OBVIOUS
<1>2. Len(Append(r, e)) = Len(r) + 1 /\ SubSeq(Append(r, e), 1, Len(r)) = r
  OBVIOUS
<1> QED
  BY <1>1, <1>2 DEF Ratchet!Extends, Ratchet!Root

LEMMA RootsAreInStep == ASSUME RatchetInv PROVE Ratchet!RootsInStep
<1> DEFINE a == ratchet["alice"]
           b == ratchet["bob"]
<1>1. /\ "alice" \in Ratchet!Parties /\ Ratchet!Other("alice") = "bob"
      /\ "bob" \in Ratchet!Parties /\ Ratchet!Other("bob") = "alice"
  BY DEF Ratchet!Parties, Ratchet!Other
<1>2. a.root \in Seq(SUBSET Pairs) /\ b.root \in Seq(SUBSET Pairs) /\ a.dh \in Pairs /\ b.dh \in Pairs
  BY <1>1 DEF RatchetInv, RatchetTypes, StateOf
<1>3. CASE session = "roles"
  <2>1. Level => a.root = b.root
    BY DEF Level
  <2>2. Ahead("alice") => Ratchet!Extends(b.root, a.root)
    BY <1>1, <1>2, RootExtends DEF Ahead
  <2>3. Ahead("bob") => Ratchet!Extends(a.root, b.root)
    BY <1>1, <1>2, RootExtends DEF Ahead
  <2>4. InTurns
    BY <1>3 DEF RatchetInv, TurnInv
  <2> QED
    BY <2>1, <2>2, <2>3, <2>4 DEF InTurns, Ratchet!RootsInStep, Ratchet!Extends
<1>4. CASE session # "roles"
  <2>1. a.root = <<>> /\ b.root = <<>>
    BY <1>1, <1>4 DEF RatchetInv, SharedInv
  <2> QED
    BY <2>1 DEF Ratchet!RootsInStep, Ratchet!Extends
<1> QED
  BY <1>3, <1>4

(* A message that has been read is of the receiver's last chain or of one    *)
(* whose headers it no longer reads.                                         *)
LEMMA EachIsReadOnce == ASSUME RatchetInv PROVE Ratchet!ReadOnce
<1> SUFFICES ASSUME NEW m \in read, Ratchet!Opens(m) PROVE FALSE
  BY DEF Ratchet!ReadOnce
<1>1. RatchetTypes /\ SentInv /\ TurnInv /\ SharedInv
  BY DEF RatchetInv
<1>2. m \in network /\ Message(m) /\ m.from \in Ratchet!Parties /\ m.dh \in Pairs
      /\ m.dh.party = m.from /\ m.n \in Nat
  BY <1>1 DEF RatchetTypes, Message
<1>3. PICK p : p = Ratchet!Other(m.from)
  OBVIOUS
<1>4. p \in Ratchet!Parties /\ m.from = Ratchet!Other(p)
  BY <1>2, <1>3, TwoParties
<1>5. PICK o : o = ratchet[p]
  OBVIOUS
<1>6. StateOf(o, p) /\ KeysKept(o) /\ Used(o, m)
  BY <1>1, <1>3, <1>4, <1>5 DEF RatchetTypes
<1>7. PICK s : s = Ratchet!HeaderRead(o, m)
  OBVIOUS
<1>8. PICK t : t = Ratchet!Turned(s, m)
  OBVIOUS
<1>9. /\ Ratchet!HeaderOpens(o, m)
      /\ \/ Ratchet!SkippedFor(s, m) # {}
         \/ ~Ratchet!OutOfRange(t, m)
  BY <1>3, <1>5, <1>7, <1>8 DEF Ratchet!Opens, Ratchet!Given
<1>10. StateRecord(o) /\ o.remote \in Pairs /\ o.nr \in Nat
  BY <1>6 DEF StateOf
<1>11. StateRecord(s) /\ s.remote = o.remote /\ s.nr = o.nr /\ s.skipped = o.skipped
  BY <1>7, <1>10, HeaderReadState
<1>12. m.dh = o.remote
  <2>1. o.remote # Ratchet!NoPair /\ m.dh.i <= o.remote.i
    BY <1>6 DEF Used
  <2>2. CASE session = "roles"
    <3>1. ~(m.dh.i < o.remote.i)
      BY <1>1, <1>2, <1>3, <1>5, <1>9, <2>2 DEF TurnInv
    <3>2. o.remote.party = m.from
      BY <1>4, <1>6, <2>1 DEF StateOf
    <3> QED
      BY <1>2, <1>10, <2>1, <3>1, <3>2 DEF Pairs
  <2>3. CASE session # "roles"
    <3>1. m.dh = ratchet[Ratchet!Other(p)].dh
      BY <1>1, <1>2, <1>4, <2>3, SharedMessages
    <3>2. o.remote \in {Ratchet!NoPair, ratchet[Ratchet!Other(p)].dh}
      BY <1>1, <1>4, <1>5, <2>3 DEF SharedInv
    <3> QED
      BY <2>1, <3>1, <3>2
  <2> QED
    BY <2>2, <2>3
<1>13. m.n < o.nr /\ Ratchet!SkippedFor(s, m) = {}
  BY <1>6, <1>11, <1>12 DEF Used, Ratchet!SkippedFor
<1>14. t.nr = o.nr
  <2>1. ~Ratchet!NewKey(s, m)
    BY <1>11, <1>12 DEF Ratchet!NewKey
  <2> QED
    BY <1>8, <1>11, <2>1, TurnedState
<1> QED
  BY <1>9, <1>13, <1>14 DEF Ratchet!OutOfRange

(* In a session from a shared secret a message that is in range, or whose    *)
(* key is kept, opens.                                                       *)
LEMMA SharedOpens ==
  ASSUME RatchetInv, session # "roles", NEW m \in network,
         \/ Ratchet!SkippedFor(ratchet[Ratchet!Other(m.from)], m) # {}
         \/ /\ ratchet[Ratchet!Other(m.from)].nr <= m.n
            /\ m.n < ratchet[Ratchet!Other(m.from)].nr + MaxSkip
  PROVE  Ratchet!Opens(m)
<1>1. RatchetTypes /\ SentInv /\ TurnInv /\ SharedInv
  BY DEF RatchetInv
<1>2. PICK p : p = Ratchet!Other(m.from)
  OBVIOUS
<1>3. p \in Ratchet!Parties /\ m.from = Ratchet!Other(p)
  BY <1>1, <1>2, TwoParties DEF RatchetTypes, Message
<1>4. PICK o : o = ratchet[p]
  OBVIOUS
<1>5. PICK q : q = ratchet[Ratchet!Other(p)]
  OBVIOUS
<1>6. PICK s : s = Ratchet!HeaderRead(o, m)
  OBVIOUS
<1>7. PICK t : t = Ratchet!Turned(s, m)
  OBVIOUS
<1>8. s = o /\ ~Ratchet!NewKey(s, m) /\ t.nr = o.nr /\ t.receiving = o.receiving
  BY <1>1, <1>3, <1>4, <1>6, <1>7, TurnedShared
<1>9. m.header = q.hks /\ m.key = <<q.sending, m.n>> /\ m.n \in Nat
  BY <1>1, <1>3, <1>5, SharedMessages
<1>10. o.hkr = q.hks /\ o.receiving = q.sending /\ \A k \in o.skipped : k.key = <<o.receiving, k.n>>
  BY <1>1, <1>3, <1>4, <1>5 DEF SharedInv
<1>11. m \in Ratchet!Given(p)
  BY <1>3, <1>4, <1>9, <1>10 DEF Ratchet!Given, Ratchet!HeaderOpens
<1>12. CASE Ratchet!SkippedFor(s, m) # {}
  <2>1. PICK k \in Ratchet!SkippedFor(s, m) : TRUE
    BY <1>12
  <2>2. k \in o.skipped /\ k.n = m.n
    BY <1>8 DEF Ratchet!SkippedFor
  <2>3. k.key = m.key
    BY <1>9, <1>10, <2>2
  <2> QED
    BY <1>2, <1>4, <1>6, <1>11, <2>3 DEF Ratchet!Opens
<1>13. CASE Ratchet!SkippedFor(s, m) = {}
  <2>1. ~Ratchet!OutOfRange(t, m)
    <3>1. o.nr <= m.n /\ m.n < o.nr + MaxSkip
      BY <1>2, <1>4, <1>8, <1>13
    <3>2. o.nr \in Nat /\ MaxSkip \in Nat
      BY <1>1, <1>3, <1>4, RatchetAssumption DEF RatchetTypes, StateOf
    <3> QED
      BY <1>8, <1>9, <3>1, <3>2 DEF Ratchet!OutOfRange
  <2>2. ~Ratchet!JumpTooFar(s, m)
    BY <1>8 DEF Ratchet!JumpTooFar
  <2>3. m.key = <<t.receiving, m.n>>
    BY <1>8, <1>9, <1>10
  <2> QED
    BY <1>2, <1>4, <1>6, <1>7, <1>11, <1>13, <2>1, <2>2, <2>3 DEF Ratchet!Opens
<1> QED
  BY <1>12, <1>13

LEMMA SharedInAnyOrder == ASSUME RatchetInv PROVE Ratchet!SharedAnyOrder
<1> SUFFICES ASSUME session = "shared", NEW m \in network PROVE Ratchet!Readable(m)
  BY DEF Ratchet!SharedAnyOrder
<1> DEFINE o == ratchet[Ratchet!Other(m.from)]
<1>1. session # "roles"
  OBVIOUS
<1>2. o.nr \in Nat /\ m.n \in Nat /\ MaxSkip \in Nat
  BY TwoParties, RatchetAssumption DEF RatchetInv, RatchetTypes, StateOf, Message
<1>3. m.n < o.nr => m \in read \/ m.key \in dropped \/ Ratchet!SkippedFor(o, m) # {}
  BY <1>1 DEF RatchetInv, SharedInv
<1>4. CASE m.n < o.nr
  BY <1>1, <1>3, <1>4, SharedOpens DEF Ratchet!Readable
<1>5. CASE m.n >= o.nr + MaxSkip
  BY <1>5 DEF Ratchet!Readable
<1>6. CASE o.nr <= m.n /\ m.n < o.nr + MaxSkip
  BY <1>1, <1>6, SharedOpens DEF Ratchet!Readable
<1> QED
  BY <1>2, <1>4, <1>5, <1>6

(* The first messages after a turn open: their header key is the next one of *)
(* the receiver, who then derives the root that the sender has.              *)
LEMMA TurnOpens ==
  ASSUME RatchetInv, session = "roles", NEW p \in Ratchet!Parties, NEW m \in network,
         m.from = Ratchet!Other(p), m.dh = ratchet[Ratchet!Other(p)].dh,
         m.dh # ratchet[p].remote, m.pn < ratchet[p].nr + MaxSkip, m.n < MaxSkip
  PROVE  Ratchet!Opens(m)
<1>1. RatchetTypes /\ SentInv /\ TurnInv
  BY DEF RatchetInv
<1>2. PICK o : o = ratchet[p]
  OBVIOUS
<1>3. PICK q : q = ratchet[Ratchet!Other(p)]
  OBVIOUS
<1>4. Ratchet!Other(p) \in Ratchet!Parties /\ Ratchet!Other(Ratchet!Other(p)) = p
  BY TwoParties
<1>5. Ahead(Ratchet!Other(p))
  <2>1. InTurns
    BY <1>1 DEF TurnInv
  <2>2. ~Level /\ ~Ahead(p)
    BY DEF Level, Ahead, Ratchet!Parties, Ratchet!Other
  <2> QED
    BY <2>1, <2>2, <1>4, TwoParties DEF InTurns, Ratchet!Parties, Ratchet!Other
<1>6. /\ q.root = Ratchet!Root(o.root, q.dh, o.dh) /\ q.dh.i = o.remote.i + 1
      /\ q.hks = o.nhkr /\ q.sending # Ratchet!Empty
  BY <1>2, <1>3, <1>4, <1>5 DEF Ahead
<1>7. m.header = q.hks /\ m.key = <<q.sending, m.n>>
  BY <1>1, <1>3, <1>6 DEF SentInv
<1>8. q.sending = Ratchet!Key("chain", q.root)
  BY <1>1, <1>3, <1>4, <1>6 DEF TurnInv, Derived
<1>9. m \in Ratchet!Given(p)
  BY <1>2, <1>6, <1>7 DEF Ratchet!Given, Ratchet!HeaderOpens
<1>10. StateOf(o, p) /\ KeysKept(o) /\ o.remote # Ratchet!NoPair /\ q.dh \in Pairs
  BY <1>1, <1>2, <1>3, <1>4 DEF RatchetTypes, TurnInv, Derived, StateOf
<1>11. StateRecord(o) /\ o.root \in Seq(SUBSET Pairs) /\ o.dh \in Pairs /\ o.remote \in Pairs /\ o.nr \in Nat
  BY <1>10 DEF StateOf
<1>12. PICK s : s = Ratchet!HeaderRead(o, m)
  OBVIOUS
<1>13. StateRecord(s) /\ s.root = o.root /\ s.dh = o.dh /\ s.remote = o.remote /\ s.nr = o.nr
       /\ s.skipped = o.skipped
  BY <1>11, <1>12 DEF Ratchet!HeaderRead, StateRecord, Fields
<1>14. Ratchet!NewKey(s, m)
  BY <1>2, <1>10, <1>13 DEF Ratchet!NewKey
<1>15. Ratchet!SkippedFor(s, m) = {}
  <2> SUFFICES ASSUME NEW k \in o.skipped, k.dh = m.dh PROVE FALSE
    BY <1>13 DEF Ratchet!SkippedFor
  <2>1. k.dh.i <= o.remote.i /\ k.dh.i = q.dh.i
    BY <1>3, <1>10 DEF KeysKept
  <2>2. o.remote.i \in Nat
    BY <1>11 DEF Pairs
  <2> QED
    BY <2>1, <2>2, <1>6
<1>16. ~Ratchet!JumpTooFar(s, m)
  <2>1. m.pn \in Nat /\ MaxSkip \in Nat /\ o.nr \in Nat
    BY <1>1, <1>11, RatchetAssumption DEF RatchetTypes, Message
  <2>2. m.pn < o.nr + MaxSkip
    BY <1>2
  <2> QED
    BY <2>1, <2>2, <1>13 DEF Ratchet!JumpTooFar
<1>17. PICK u : u = Ratchet!SkipTo(s, m.pn)
  OBVIOUS
<1>18. PICK t : t = Ratchet!Turned(s, m)
  OBVIOUS
<1>19. StateRecord(u) /\ u.root = o.root /\ u.dh = o.dh
  BY <1>13, <1>17, SkipToState
<1>20. t = Ratchet!DhRatchet(u, m.dh)
  BY <1>13, <1>14, <1>17, <1>18, TurnedState
<1>21. t.nr = 0 /\ t.receiving = Ratchet!Key("chain", Ratchet!Root(u.root, u.dh, m.dh))
  BY <1>19, <1>20 DEF Ratchet!DhRatchet, StateRecord, Fields
<1>22. t.receiving = q.sending
  <2>1. Ratchet!Root(o.root, q.dh, o.dh) = Ratchet!Root(o.root, o.dh, q.dh)
    BY <1>10, <1>11, RootFacts
  <2> QED
    BY <2>1, <1>3, <1>6, <1>8, <1>19, <1>21
<1>23. ~Ratchet!OutOfRange(t, m)
  <2>1. m.n \in Nat /\ MaxSkip \in Nat
    BY <1>1, RatchetAssumption DEF RatchetTypes, Message
  <2> QED
    BY <2>1, <1>21 DEF Ratchet!OutOfRange
<1>24. m.key = <<t.receiving, m.n>>
  BY <1>7, <1>22
<1>25. p = Ratchet!Other(m.from)
  BY <1>4
<1> QED
  BY <1>2, <1>9, <1>12, <1>15, <1>16, <1>18, <1>23, <1>24, <1>25 DEF Ratchet!Opens

LEMMA RepliesOpen == ASSUME RatchetInv PROVE Ratchet!ReplyOpens
<1> SUFFICES ASSUME NEW m \in network,
                    m.dh = ratchet[m.from].dh, m.dh # ratchet[Ratchet!Other(m.from)].remote,
                    m.pn < ratchet[Ratchet!Other(m.from)].nr + MaxSkip, m.n < MaxSkip
             PROVE  Ratchet!Opens(m)
  BY DEF Ratchet!ReplyOpens
<1>1. PICK p : p = Ratchet!Other(m.from)
  OBVIOUS
<1>2. p \in Ratchet!Parties /\ m.from = Ratchet!Other(p) /\ m.n \in Nat
  BY <1>1, TwoParties DEF RatchetInv, RatchetTypes, Message
<1>3. CASE session = "roles"
  BY <1>1, <1>2, <1>3, TurnOpens
<1>4. CASE session # "roles"
  <2>1. ratchet[p].remote = Ratchet!NoPair
    BY <1>1, <1>2, <1>4 DEF RatchetInv, SharedInv
  <2>2. ratchet[p].nr = 0
    BY <1>2, <2>1 DEF RatchetInv, RatchetTypes, KeysKept
  <2>3. ratchet[p].nr <= m.n /\ m.n < ratchet[p].nr + MaxSkip
    BY <1>2, <2>2, RatchetAssumption
  <2> QED
    BY <1>1, <1>4, <2>3, SharedOpens
<1> QED
  BY <1>3, <1>4

(* Under any loss, repetition and order of messages: the two roots never     *)
(* diverge, no message is read twice, the first messages after a turn open,  *)
(* and in a session from a shared secret every message opens in any order,   *)
(* short of the bounds on jumps and kept keys. For any number of messages    *)
(* and any MAX_SKIP.                                                         *)
THEOREM SessionIsSound == PartSpec => []SessionSound
<1>1. RatchetInv => SessionSound
  BY RatchetIsTyped, RootsAreInStep, EachIsReadOnce, RepliesOpen, SharedInAnyOrder
  DEF SessionSound, Ratchet!SessionSound
<1> QED
  BY <1>1, RatchetInductive, PTL
=============================================================================
