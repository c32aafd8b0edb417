-------------------------- MODULE ReplayStoreProofs --------------------------
(* The contract of the replay registry keeps its promises for any keys,      *)
(* tokens, retentions and clock lag.                                         *)
EXTENDS ReplayStore, TLAPS

Active(t) == grants[t].fate \notin {"unused", "released"}

(* What the entry of a key says of the active grants of that key.            *)
Linked ==
  \A k \in Keys : claims[k].state = "pending" =>
    /\ claims[k].token \in Tokens
    /\ grants[claims[k].token].fate = "open"
    /\ grants[claims[k].token].key = k

(* An active grant that has not lapsed is the one its key's entry records.   *)
Covered ==
  \A t \in Tokens : Active(t) /\ now < grants[t].until =>
    LET c == claims[grants[t].key]
    IN /\ grants[t].key \in Keys
       /\ c.expires = grants[t].until
       /\ grants[t].fate = "open" => c.state = "pending" /\ c.token = t
       /\ grants[t].fate # "open" => c.state = grants[t].fate

(* Whoever holds a pending entry claimed after all others had lapsed: a late *)
(* commit extends the newest window, never an older one.                     *)
Newest ==
  \A k \in Keys, s \in Tokens :
    /\ claims[k].state = "pending"
    /\ s # claims[k].token
    /\ Active(s) /\ grants[s].key = k
    => grants[s].until <= grants[claims[k].token].at

PastClaims == \A t \in Tokens : grants[t].at <= now

IInv == TypeOK /\ Linked /\ Covered /\ Newest /\ PastClaims /\ ExclusiveWindows

-----------------------------------------------------------------------------
LEMMA TypeInit == Init => TypeOK
  BY KeysAssumption, TokensAssumption
  DEF Init, TypeOK, Entry, Missing, Grant, NoGrant

LEMMA MissingIsEntry == Missing \in Entry
  BY DEF Missing, Entry

(* Sweeping keeps a table of entries.                                        *)
LEMMA SweptType ==
  ASSUME NEW c \in [Keys -> Entry], NEW gone
  PROVE  Swept(c, gone) \in [Keys -> Entry]
  BY MissingIsEntry DEF Swept

(* The expiry an operation writes is an integer.                             *)
LEMMA ExpiriesInt ==
  ASSUME now \in Nat, NEW ttl \in Ttls
  PROVE  Expiries(ttl) \subseteq Int
  BY TtlsAssumption, LagAssumption DEF Expiries

LEMMA TypeStep == TypeOK /\ [Next]_vars => TypeOK'
<1> SUFFICES ASSUME TypeOK, [Next]_vars PROVE TypeOK'
  OBVIOUS
<1>1. ASSUME NEW k \in Keys, NEW t \in Tokens, NEW ttl \in Ttls, Claim(k, t, ttl)
      PROVE  TypeOK'
  <2>1. PICK e \in Expiries(ttl), gone \in SUBSET {x \in Keys : Expired(x)} :
          /\ claims' = [Swept(claims, gone) EXCEPT ![k] = PendingEntry(t, e)]
          /\ grants' = [grants EXCEPT ![t] = OpenGrant(k, now, e)]
    BY <1>1 DEF Claim
  <2>2. e \in Int
    BY ExpiriesInt DEF TypeOK
  <2>3. PendingEntry(t, e) \in Entry
    BY <2>2 DEF PendingEntry, Entry
  <2>4. OpenGrant(k, now, e) \in Grant
    BY <2>2 DEF OpenGrant, Grant, TypeOK
  <2>5. Swept(claims, gone) \in [Keys -> Entry]
    BY SweptType DEF TypeOK
  <2> QED
    BY <1>1, <2>1, <2>3, <2>4, <2>5 DEF Claim, TypeOK
<1>2. ASSUME NEW k \in Keys, NEW t \in Tokens, NEW ttl \in Ttls,
             NEW outcome \in Settled, Settle(k, t, outcome, ttl)
      PROVE  TypeOK'
  <2>1. PICK e \in Expiries(ttl) :
          /\ claims' = [claims EXCEPT ![k] = [state |-> outcome, token |-> NoToken,
                                              expires |-> e]]
          /\ grants' = [grants EXCEPT ![t].fate = outcome, ![t].until = e]
    BY <1>2 DEF Settle
  <2>2. e \in Int
    BY ExpiriesInt DEF TypeOK
  <2>3. [state |-> outcome, token |-> NoToken, expires |-> e] \in Entry
    BY <2>2 DEF Entry
  <2>4. [grants[t] EXCEPT !.fate = outcome, !.until = e] \in Grant
    BY <2>2 DEF Grant, TypeOK, Settled
  <2> QED
    BY <1>2, <2>1, <2>3, <2>4 DEF Settle, TypeOK
<1>3. ASSUME NEW k \in Keys, NEW t \in Tokens, Release(k, t)
      PROVE  TypeOK'
  <2>1. [grants[t] EXCEPT !.fate = "released"] \in Grant
    BY DEF Grant, TypeOK
  <2> QED
    BY <1>3, <2>1, MissingIsEntry DEF Release, TypeOK
<1>4. CASE Forget
  BY <1>4, SweptType DEF Forget, TypeOK
<1>5. CASE Tick
  BY <1>5 DEF Tick, TypeOK
<1>6. CASE UNCHANGED vars
  BY <1>6 DEF vars, TypeOK
<1> QED
  BY <1>1, <1>2, <1>3, <1>4, <1>5, <1>6 DEF Next

-----------------------------------------------------------------------------
(* A key that a claim may take has no active grant left: all have lapsed.    *)
LEMMA TakenOver ==
  ASSUME IInv, NEW k \in Keys, ~Held(claims, k) \/ Expired(k),
         NEW s \in Tokens, Active(s), grants[s].key = k
  PROVE  grants[s].until <= now
<1> SUFFICES ASSUME now < grants[s].until PROVE FALSE
  BY DEF IInv, TypeOK, Grant
<1>1. claims[k].expires = grants[s].until /\ Held(claims, k)
  BY DEF IInv, Covered, Held, Active, TypeOK, Grant, Settled
<1> QED
  BY <1>1 DEF IInv, TypeOK, Grant, Expired

(* What a successful claim does to the two tables, key by key.               *)
LEMMA ClaimEffect ==
  ASSUME TypeOK, NEW k \in Keys, NEW t \in Tokens, NEW ttl \in Ttls,
         Claim(k, t, ttl)
  PROVE  /\ now' = now
         /\ claims'[k].state = "pending" /\ claims'[k].token = t
         /\ grants'[t].fate = "open" /\ grants'[t].key = k /\ grants'[t].at = now
         /\ grants'[t].until = claims'[k].expires
         /\ \A s \in Tokens \ {t} : grants'[s] = grants[s]
         /\ \A x \in Keys \ {k} : \/ claims'[x] = claims[x]
                                  \/ claims'[x] = Missing /\ Expired(x)
<1>1. PICK e \in Expiries(ttl), gone \in SUBSET {x \in Keys : Expired(x)} :
        /\ claims' = [Swept(claims, gone) EXCEPT ![k] = PendingEntry(t, e)]
        /\ grants' = [grants EXCEPT ![t] = OpenGrant(k, now, e)]
  BY DEF Claim
<1> QED
  BY <1>1 DEF Claim, TypeOK, Swept, PendingEntry, OpenGrant

LEMMA SettleEffect ==
  ASSUME TypeOK, NEW k \in Keys, NEW t \in Tokens, NEW ttl \in Ttls,
         NEW outcome \in Settled, Settle(k, t, outcome, ttl)
  PROVE  /\ now' = now
         /\ claims[k].state = "pending" /\ claims[k].token = t
         /\ claims'[k].state = outcome
         /\ grants'[t].fate = outcome /\ grants'[t].key = grants[t].key
         /\ grants'[t].at = grants[t].at
         /\ grants'[t].until = claims'[k].expires
         /\ \A s \in Tokens \ {t} : grants'[s] = grants[s]
         /\ \A x \in Keys \ {k} : claims'[x] = claims[x]
<1>1. PICK e \in Expiries(ttl) :
        /\ claims' = [claims EXCEPT ![k] = [state |-> outcome, token |-> NoToken,
                                            expires |-> e]]
        /\ grants' = [grants EXCEPT ![t].fate = outcome, ![t].until = e]
  BY DEF Settle
<1> QED
  BY <1>1 DEF Settle, TypeOK, Grant

LEMMA ClaimStep ==
  ASSUME IInv, TypeOK', NEW k \in Keys, NEW t \in Tokens, NEW ttl \in Ttls,
         Claim(k, t, ttl)
  PROVE  IInv'
<1> USE DEF IInv
<1>e. /\ now' = now
      /\ claims'[k].state = "pending" /\ claims'[k].token = t
      /\ grants'[t].fate = "open" /\ grants'[t].key = k /\ grants'[t].at = now
      /\ grants'[t].until = claims'[k].expires
      /\ \A s \in Tokens \ {t} : grants'[s] = grants[s]
      /\ \A x \in Keys \ {k} : \/ claims'[x] = claims[x]
                               \/ claims'[x] = Missing /\ Expired(x)
  BY ClaimEffect
<1>u. grants[t].fate = "unused"
  BY DEF Claim
<1>l. \A s \in Tokens : Active(s) /\ grants[s].key = k => grants[s].until <= now
  BY TakenOver DEF Claim
<1>1. Linked'
  BY <1>e, <1>u DEF Linked, Missing
<1>2. Covered'
  <2> SUFFICES ASSUME NEW s \in Tokens, (Active(s) /\ now < grants[s].until)'
      PROVE (LET c == claims[grants[s].key]
             IN /\ grants[s].key \in Keys
                /\ c.expires = grants[s].until
                /\ grants[s].fate = "open" => c.state = "pending" /\ c.token = s
                /\ grants[s].fate # "open" => c.state = grants[s].fate)'
    BY DEF Covered
  <2>1. CASE s = t
    BY <1>e, <2>1
  <2>2. CASE s # t
    <3>1. grants'[s] = grants[s] /\ Active(s) /\ now < grants[s].until
      BY <1>e, <2>2 DEF Active
    <3>2. grants[s].key \in Keys /\ grants[s].key # k
      BY <3>1, <1>l DEF Covered, TypeOK, Grant
    <3>3. claims[grants[s].key].expires = grants[s].until
      BY <3>1 DEF Covered
    <3>4. ~Expired(grants[s].key)
      BY <3>1, <3>3 DEF Expired, TypeOK, Grant
    <3>5. claims'[grants[s].key] = claims[grants[s].key]
      BY <1>e, <3>2, <3>4
    <3> QED
      BY <3>1, <3>5 DEF Covered
  <2> QED
    BY <2>1, <2>2
<1>3. Newest'
  <2> SUFFICES ASSUME NEW x \in Keys, NEW s \in Tokens,
                      (/\ claims[x].state = "pending"
                       /\ s # claims[x].token
                       /\ Active(s) /\ grants[s].key = x)'
      PROVE (grants[s].until <= grants[claims[x].token].at)'
    BY DEF Newest
  <2>1. CASE x = k
    <3>1. s # t /\ grants'[s] = grants[s] /\ Active(s)
      BY <1>e, <2>1 DEF Active
    <3> QED
      BY <1>e, <1>l, <2>1, <3>1
  <2>2. CASE x # k
    <3>1. claims'[x] = claims[x]
      BY <1>e, <2>2 DEF Missing
    <3>2. s # t /\ grants'[s] = grants[s] /\ Active(s)
      BY <1>e, <2>2 DEF Active
    <3>3. claims[x].token \in Tokens /\ claims[x].token # t
      BY <3>1, <1>u DEF Linked
    <3> QED
      BY <1>e, <3>1, <3>2, <3>3 DEF Newest
  <2> QED
    BY <2>1, <2>2
<1>4. PastClaims'
  BY <1>e DEF PastClaims, TypeOK
<1>5. ExclusiveWindows'
  <2>1. \A s \in Tokens \ {t} :
          Active(s) /\ grants[s].key = k => grants'[s].until <= grants'[t].at
    BY <1>e, <1>l
  <2> QED
    BY <1>e, <2>1 DEF ExclusiveWindows, Active
<1> QED
  BY <1>1, <1>2, <1>3, <1>4, <1>5

LEMMA SettleStep ==
  ASSUME IInv, TypeOK', NEW k \in Keys, NEW t \in Tokens, NEW ttl \in Ttls,
         NEW outcome \in Settled, Settle(k, t, outcome, ttl)
  PROVE  IInv'
<1> USE DEF IInv
<1>e. /\ now' = now
      /\ claims[k].state = "pending" /\ claims[k].token = t
      /\ claims'[k].state = outcome
      /\ grants'[t].fate = outcome /\ grants'[t].key = grants[t].key
      /\ grants'[t].at = grants[t].at
      /\ grants'[t].until = claims'[k].expires
      /\ \A s \in Tokens \ {t} : grants'[s] = grants[s]
      /\ \A x \in Keys \ {k} : claims'[x] = claims[x]
  BY SettleEffect
<1>o. grants[t].key = k /\ grants[t].fate = "open"
  BY <1>e DEF Linked
<1>n. outcome \notin {"pending", "unused", "released", "open"}
  BY DEF Settled
<1>l. \A s \in Tokens \ {t} :
        Active(s) /\ grants[s].key = k => grants[s].until <= grants[t].at
  BY <1>e DEF Newest
<1>1. Linked'
  BY <1>e, <1>o, <1>n DEF Linked
<1>2. Covered'
  <2> SUFFICES ASSUME NEW s \in Tokens, (Active(s) /\ now < grants[s].until)'
      PROVE (LET c == claims[grants[s].key]
             IN /\ grants[s].key \in Keys
                /\ c.expires = grants[s].until
                /\ grants[s].fate = "open" => c.state = "pending" /\ c.token = s
                /\ grants[s].fate # "open" => c.state = grants[s].fate)'
    BY DEF Covered
  <2>1. CASE s = t
    BY <1>e, <1>o, <1>n, <2>1
  <2>2. CASE s # t
    <3>1. grants'[s] = grants[s] /\ Active(s) /\ now < grants[s].until
      BY <1>e, <2>2 DEF Active
    <3>2. grants[s].key \in Keys /\ grants[s].key # k
      BY <2>2, <3>1, <1>l DEF Covered, PastClaims, TypeOK, Grant
    <3>3. claims'[grants[s].key] = claims[grants[s].key]
      BY <1>e, <3>2
    <3> QED
      BY <3>1, <3>3 DEF Covered
  <2> QED
    BY <2>1, <2>2
<1>3. Newest'
  <2> SUFFICES ASSUME NEW x \in Keys, NEW s \in Tokens,
                      (/\ claims[x].state = "pending"
                       /\ s # claims[x].token
                       /\ Active(s) /\ grants[s].key = x)'
      PROVE (grants[s].until <= grants[claims[x].token].at)'
    BY DEF Newest
  <2>1. x # k /\ claims'[x] = claims[x]
    BY <1>e, <1>n
  <2>2. s # t /\ grants'[s] = grants[s] /\ Active(s)
    BY <1>e, <1>o, <2>1 DEF Active
  <2>3. claims[x].token \in Tokens /\ claims[x].token # t
    BY <1>o, <2>1 DEF Linked
  <2> QED
    BY <1>e, <2>1, <2>2, <2>3 DEF Newest
<1>4. PastClaims'
  BY <1>e DEF PastClaims
<1>5. ExclusiveWindows'
  BY <1>e, <1>o, <1>l DEF ExclusiveWindows, Active
<1> QED
  BY <1>1, <1>2, <1>3, <1>4, <1>5

LEMMA ReleaseStep ==
  ASSUME IInv, TypeOK', NEW k \in Keys, NEW t \in Tokens, Release(k, t)
  PROVE  IInv'
<1> USE DEF IInv
<1>e. /\ now' = now
      /\ claims[k].state = "pending" /\ claims[k].token = t
      /\ claims'[k] = Missing
      /\ grants'[t].fate = "released" /\ grants'[t].at = grants[t].at
      /\ \A s \in Tokens \ {t} : grants'[s] = grants[s]
      /\ \A x \in Keys \ {k} : claims'[x] = claims[x]
  BY DEF Release, TypeOK, Grant
<1>o. grants[t].key = k /\ grants[t].fate = "open"
  BY <1>e DEF Linked
<1>l. \A s \in Tokens \ {t} :
        Active(s) /\ grants[s].key = k => grants[s].until <= grants[t].at
  BY <1>e DEF Newest
<1>m. claims'[k].state = "missing"
  BY <1>e DEF Missing
<1>1. Linked'
  BY <1>e, <1>o, <1>m DEF Linked
<1>2. Covered'
  <2> SUFFICES ASSUME NEW s \in Tokens, (Active(s) /\ now < grants[s].until)'
      PROVE (LET c == claims[grants[s].key]
             IN /\ grants[s].key \in Keys
                /\ c.expires = grants[s].until
                /\ grants[s].fate = "open" => c.state = "pending" /\ c.token = s
                /\ grants[s].fate # "open" => c.state = grants[s].fate)'
    BY DEF Covered
  <2>1. s # t /\ grants'[s] = grants[s] /\ Active(s) /\ now < grants[s].until
    BY <1>e DEF Active
  <2>2. grants[s].key \in Keys /\ grants[s].key # k
    BY <2>1, <1>l DEF Covered, PastClaims, TypeOK, Grant
  <2>3. claims'[grants[s].key] = claims[grants[s].key]
    BY <1>e, <2>2
  <2> QED
    BY <2>1, <2>3 DEF Covered
<1>3. Newest'
  <2> SUFFICES ASSUME NEW x \in Keys, NEW s \in Tokens,
                      (/\ claims[x].state = "pending"
                       /\ s # claims[x].token
                       /\ Active(s) /\ grants[s].key = x)'
      PROVE (grants[s].until <= grants[claims[x].token].at)'
    BY DEF Newest
  <2>1. x # k /\ claims'[x] = claims[x]
    BY <1>e, <1>m
  <2>2. s # t /\ grants'[s] = grants[s] /\ Active(s)
    BY <1>e DEF Active
  <2>3. claims[x].token \in Tokens /\ claims[x].token # t
    BY <1>o, <2>1 DEF Linked
  <2> QED
    BY <1>e, <2>1, <2>2, <2>3 DEF Newest
<1>4. PastClaims'
  BY <1>e DEF PastClaims
<1>5. ExclusiveWindows'
  BY <1>e DEF ExclusiveWindows, Active
<1> QED
  BY <1>1, <1>2, <1>3, <1>4, <1>5

LEMMA ForgetStep ==
  ASSUME IInv, TypeOK', Forget
  PROVE  IInv'
<1> USE DEF IInv
<1>e. /\ now' = now /\ grants' = grants
      /\ \A x \in Keys : \/ claims'[x] = claims[x]
                         \/ claims'[x] = Missing /\ Expired(x)
  BY DEF Forget, Swept
<1>1. Linked'
  BY <1>e DEF Linked, Missing
<1>2. Covered'
  <2>1. \A s \in Tokens : Active(s) /\ now < grants[s].until =>
          claims'[grants[s].key] = claims[grants[s].key]
    BY <1>e DEF Covered, Expired, TypeOK, Grant
  <2> QED
    BY <1>e, <2>1 DEF Covered, Active
<1>3. Newest'
  BY <1>e DEF Newest, Missing, Active
<1>4. PastClaims'
  BY <1>e DEF PastClaims
<1>5. ExclusiveWindows'
  BY <1>e DEF ExclusiveWindows
<1> QED
  BY <1>1, <1>2, <1>3, <1>4, <1>5

LEMMA TickStep ==
  ASSUME IInv, TypeOK', Tick
  PROVE  IInv'
<1> USE DEF IInv
<1>e. now' = now + 1 /\ claims' = claims /\ grants' = grants
  BY DEF Tick
<1>1. Linked' /\ Newest' /\ ExclusiveWindows'
  BY <1>e DEF Linked, Newest, ExclusiveWindows, Active
<1>2. Covered'
  BY <1>e DEF Covered, Active, TypeOK, Grant
<1>3. PastClaims'
  BY <1>e DEF PastClaims, TypeOK, Grant
<1> QED
  BY <1>1, <1>2, <1>3

LEMMA InvInit == Init => IInv
<1> SUFFICES ASSUME Init PROVE IInv
  OBVIOUS
<1>1. TypeOK
  BY TypeInit
<1>2. Linked /\ Covered /\ Newest /\ PastClaims /\ ExclusiveWindows
  BY DEF Init, Missing, NoGrant, Linked, Covered, Newest, PastClaims,
         ExclusiveWindows, Active
<1> QED
  BY <1>1, <1>2 DEF IInv

LEMMA InvStep == IInv /\ [Next]_vars => IInv'
<1> SUFFICES ASSUME IInv, [Next]_vars PROVE IInv'
  OBVIOUS
<1>t. TypeOK'
  BY TypeStep DEF IInv
<1>1. CASE Next
  <2>1. ASSUME NEW k \in Keys, NEW t \in Tokens, NEW ttl \in Ttls, Claim(k, t, ttl)
        PROVE  IInv'
    BY <1>t, <2>1, ClaimStep
  <2>2. ASSUME NEW k \in Keys, NEW t \in Tokens, NEW ttl \in Ttls,
               NEW outcome \in Settled, Settle(k, t, outcome, ttl)
        PROVE  IInv'
    BY <1>t, <2>2, SettleStep
  <2>3. ASSUME NEW k \in Keys, NEW t \in Tokens, Release(k, t)
        PROVE  IInv'
    BY <1>t, <2>3, ReleaseStep
  <2> QED
    BY <1>1, <1>t, <2>1, <2>2, <2>3, ForgetStep, TickStep DEF Next
<1>2. CASE UNCHANGED vars
  BY <1>2 DEF vars, IInv, TypeOK, Linked, Covered, Newest, PastClaims,
              ExclusiveWindows, Active
<1> QED
  BY <1>1, <1>2

-----------------------------------------------------------------------------
(* The tables keep their types.                                              *)
THEOREM TypeCorrect == Spec => []TypeOK
<1>1. Init => TypeOK
  BY TypeInit
<1>2. TypeOK /\ [Next]_vars => TypeOK'
  BY TypeStep
<1> QED
  BY <1>1, <1>2, PTL DEF Spec

THEOREM Inductive == Spec => []IInv
  BY InvInit, InvStep, PTL DEF Spec

(* No two standing claims on a key ever overlap, for any number of callers.  *)
THEOREM Exclusive == Spec => []ExclusiveWindows
<1>1. IInv => ExclusiveWindows
  BY DEF IInv
<1> QED
  BY <1>1, Inductive, PTL

(* The holder of an unexpired claim can always settle it.                    *)
THEOREM HolderKeepsClaim == Spec => []HolderCanSettle
<1>1. IInv => HolderCanSettle
  BY DEF IInv, Covered, HolderCanSettle, Active
<1> QED
  BY <1>1, Inductive, PTL

(* A settled key is refused, unchanged, for the whole of its retention.      *)
THEOREM SettledIsFinal == Spec => SettledStays
<1>1. IInv /\ [Next]_vars =>
        [\A k \in Keys : claims[k].state \in Settled /\ now < claims[k].expires
                           => claims'[k] = claims[k]]_vars
  <2> SUFFICES ASSUME IInv, Next, NEW x \in Keys,
                      claims[x].state \in Settled, now < claims[x].expires
               PROVE  claims'[x] = claims[x]
    OBVIOUS
  <2>h. Held(claims, x) /\ ~Expired(x) /\ claims[x].state # "pending"
    BY DEF Held, Expired, Settled, IInv, TypeOK, Entry
  <2>1. ASSUME NEW k \in Keys, NEW t \in Tokens, NEW ttl \in Ttls, Claim(k, t, ttl)
        PROVE  claims'[x] = claims[x]
    <3>1. x # k
      BY <2>h, <2>1 DEF Claim
    <3>2. TypeOK
      BY DEF IInv
    <3>3. claims'[x] = claims[x] \/ Expired(x)
      BY <2>1, <3>1, <3>2, ClaimEffect
    <3> QED
      BY <2>h, <3>3
  <2>2. ASSUME NEW k \in Keys, NEW t \in Tokens, NEW ttl \in Ttls,
               NEW outcome \in Settled, Settle(k, t, outcome, ttl)
        PROVE  claims'[x] = claims[x]
    BY <2>h, <2>2, SettleEffect DEF IInv
  <2>3. ASSUME NEW k \in Keys, NEW t \in Tokens, Release(k, t)
        PROVE  claims'[x] = claims[x]
    BY <2>h, <2>3 DEF Release, IInv, TypeOK
  <2>4. CASE Forget
    BY <2>h, <2>4 DEF Forget, Swept
  <2>5. CASE Tick
    BY <2>5 DEF Tick
  <2> QED
    BY <2>1, <2>2, <2>3, <2>4, <2>5 DEF Next
<1> QED
  BY <1>1, Inductive, PTL DEF Spec, SettledStays
=============================================================================
