------------------------- MODULE DnsSerialProofs -------------------------
(***************************************************************************)
(* The theorems about serial_for, for any processes, domains, servers and  *)
(* bounds.                                                                 *)
(***************************************************************************)
EXTENDS DnsSerial, TLAPS

LEMMA NothingIsNoRegistry == Nothing \notin Registries
<1>1. PICK d \in Domains: TRUE
  BY DnsAssumption
<1>2. QED
  BY <1>1 DEF Nothing, Registries

LEMMA LocalAtLeast ==
    ASSUME TypeOK, NEW d \in Domains, NEW local \in Nat, NEW stale \in BOOLEAN
    PROVE  Local(d, local, stale) \in Nat /\ Local(d, local, stale) >= local
<1>0. day \in Nat /\ PerDay \in Nat
  BY DnsAssumption DEF TypeOK
<1>1. day * PerDay + 1 \in Nat /\ Pinned[d] \in Nat
  BY <1>0, DnsAssumption
<1>2. QED
  BY <1>1 DEF Local, Larger

LEMMA DecodedIsRegistry == ASSUME TypeOK PROVE Decoded \in Registries
<1>1. Empty \in Registries
  BY DnsAssumption DEF Empty, Registries
<1>2. QED
  BY <1>1 DEF TypeOK, Decoded

LEMMA DecidedIsMore ==
    ASSUME TypeOK, NEW p \in Procs
    PROVE  /\ Decided(p) \in Nat
           /\ Decided(p) > serial[p]
           /\ pc[p] = "ask" => Decided(p) > heard[p]
<1>1. serial[p] \in Nat /\ heard[p] \in Nat
  BY DEF TypeOK
<1>2. QED
  BY <1>1 DEF Decided, Larger

LEMMA UpdatedIsRegistry ==
    ASSUME TypeOK, NEW p \in Procs, pc[p] # "idle"
    PROVE  Updated(p) \in Registries
<1>1. memo[p] \in Registries /\ copy[p] \in Registries
  BY DEF TypeOK
<1>2. QED
  BY <1>1 DEF Updated, Registries

(***************************************************************************)
(* Types.  What is about to be returned is what the dictionary has.        *)
(***************************************************************************)
Kept == \A p \in Procs: pc[p] = "write" => memo[p][domain[p]] = serial[p]

TypeInv == TypeOK /\ Kept

LEMMA InitTypeInv == ASSUME Init PROVE TypeInv
<1>1. Empty \in Registries /\ PerDay + 2 \in Nat /\ 0 \in 0 .. MaxFailures + 1 /\ 1 \in 1 .. MaxDay
  BY DnsAssumption DEF Empty, Registries
<1>2. \A s \in Servers: published[s] \in [Domains -> {0, PerDay + 2}]
  BY DEF Init
<1>3. published \in [Servers -> Serials]
  BY <1>1, <1>2 DEF Init, Serials
<1>4. (CHOOSE d \in Domains: TRUE) \in Domains
  BY DnsAssumption
<1>5. QED
  BY <1>1, <1>3, <1>4 DEF Init, TypeInv, TypeOK, Kept

LEMMA NextTypeInv == ASSUME TypeInv, [Next]_vars PROVE TypeInv'
<1>a. TypeOK /\ Kept
  BY DEF TypeInv
<1>b. Empty \in Registries /\ 0 \in 0 .. MaxFailures + 1
  BY DnsAssumption DEF Empty, Registries
<1>c. Decoded \in Registries /\ Nothing \notin Registries
  BY <1>a, DecodedIsRegistry, NothingIsNoRegistry
<1> USE DEF TypeInv, TypeOK, Kept
<1>1. CASE UNCHANGED vars
  BY <1>1 DEF vars, regVars, callVars, dnsVars
<1>2. ASSUME NEW p \in Procs, NEW d \in Domains, Call(p, d) PROVE TypeInv'
  <2>1. /\ file' \in Registries \cup {Nothing}
        /\ memo' \in [Procs -> Registries \cup {Nothing}]
        /\ memo'[p] \in Registries
        /\ \A q \in Procs \ {p}: memo'[q] = memo[q]
        /\ recent' \subseteq Procs
    BY <1>2, <1>c DEF Call
  <2>2. memo'[p][d] \in Nat
    BY <2>1 DEF Registries
  <2>3. PICK stale \in BOOLEAN: serial' = [serial EXCEPT ![p] = Local(d, memo'[p][d], stale)]
    BY <1>2 DEF Call
  <2>4. serial' \in [Procs -> Nat]
    BY <1>a, <2>2, <2>3, LocalAtLeast
  <2>5. /\ pc' = [pc EXCEPT ![p] = "ask"]
        /\ left' = [left EXCEPT ![p] = Servers]
        /\ domain' = [domain EXCEPT ![p] = d]
        /\ informed' \subseteq Procs
        /\ serial' = [serial EXCEPT ![p] = serial'[p]]
        /\ UNCHANGED <<day, heard, failures, copy, mishap, zone, published>>
    BY <1>2, <2>3, <1>a DEF Call, dnsVars
  <2>6. \A q \in Procs: pc'[q] # "idle" => memo'[q] # Nothing
    BY <2>1, <2>5, <1>a, <1>c
  <2>7. Kept'
    BY <2>1, <2>5, <1>a
  <2>8. QED
    BY <2>1, <2>4, <2>5, <2>6, <2>7, <1>a
<1>3. ASSUME NEW p \in Procs, ResolverFails(p) PROVE TypeInv'
  BY <1>3, <1>a DEF ResolverFails, regVars, dnsVars
<1>4. ASSUME NEW p \in Procs, NEW s \in Servers, Skips(p, s) PROVE TypeInv'
  BY <1>4, <1>a DEF Skips, regVars, dnsVars
<1>5. ASSUME NEW p \in Procs, NEW s \in Servers, Answers(p, s) PROVE TypeInv'
  <2>1. published[s][domain[p]] \in Nat
    BY <1>a DEF Serials
  <2>2. Larger(heard[p], published[s][domain[p]]) \in Nat
    BY <1>a, <2>1 DEF Larger
  <2>3. heard' \in [Procs -> Nat] /\ left' \in [Procs -> SUBSET Servers]
    BY <1>5, <1>a, <2>2 DEF Answers
  <2>4. QED
    BY <1>5, <1>a, <2>3 DEF Answers, regVars, dnsVars
<1>6. ASSUME NEW p \in Procs, NEW s \in Servers, Fails(p, s) PROVE TypeInv'
  <2>1. failures[p][s] + 1 \in 0 .. MaxFailures + 1
    BY <1>6, <1>a, DnsAssumption DEF Fails, Skipped
  <2>2. failures' \in [Procs -> [Servers -> 0 .. MaxFailures + 1]]
    BY <1>6, <1>a, <2>1 DEF Fails
  <2>3. QED
    BY <1>6, <1>a, <2>2 DEF Fails, regVars, dnsVars
<1>7. ASSUME NEW p \in Procs, Decide(p) PROVE TypeInv'
  <2>1. Decided(p) \in 0 .. MaxSerial
    BY <1>7, <1>a, DecidedIsMore, DnsAssumption DEF Decide
  <2>2. pc[p] # "idle" /\ memo[p] \in Registries /\ domain[p] \in Domains
    BY <1>7, <1>a DEF Decide
  <2>3. [memo[p] EXCEPT ![domain[p]] = Decided(p)] \in Registries
    BY <2>1, <2>2 DEF Registries
  <2>4. /\ memo' = [memo EXCEPT ![p] = [memo[p] EXCEPT ![domain[p]] = Decided(p)]]
        /\ memo'[p][domain[p]] = Decided(p)
    BY <1>7, <1>a, <2>2 DEF Decide, Registries
  <2>5. /\ pc' = [pc EXCEPT ![p] = "write"]
        /\ serial' = [serial EXCEPT ![p] = Decided(p)]
        /\ heard' = [heard EXCEPT ![p] = 0]
        /\ copy' = [copy EXCEPT ![p] = Decoded]
        /\ file' = Decoded
        /\ UNCHANGED <<day, mishap, recent, domain, left, failures, informed, zone, published>>
    BY <1>7 DEF Decide, dnsVars
  <2>6. /\ memo' \in [Procs -> Registries \cup {Nothing}]
        /\ \A q \in Procs: pc'[q] # "idle" => memo'[q] # Nothing
    BY <2>3, <2>4, <2>5, <1>a, <1>c
  <2>7. Kept'
    BY <2>4, <2>5, <1>a
  <2>8. QED
    BY <2>1, <2>5, <2>6, <2>7, <1>a, <1>c
<1>8. ASSUME NEW p \in Procs, Write(p) PROVE TypeInv'
  <2>1. serial[p] \in 0 .. MaxSerial
    <3>1. memo[p] \in Registries /\ domain[p] \in Domains /\ memo[p][domain[p]] = serial[p]
      BY <1>8, <1>a DEF Write
    <3>2. QED
      BY <3>1 DEF Registries
  <2>2. zone' \in Registries
    BY <1>8, <1>a, <2>1 DEF Write, Registries
  <2>3. file' \in Registries
    BY <1>8, <1>a, UpdatedIsRegistry DEF Write
  <2>4. QED
    BY <1>8, <1>a, <1>b, <2>2, <2>3 DEF Write, Ends
<1>9. ASSUME NEW p \in Procs, Raises(p) PROVE TypeInv'
  BY <1>9, <1>a, <1>b DEF Raises, Ends, dnsVars
<1>10. ASSUME NEW p \in Procs, Forget(p) PROVE TypeInv'
  <2>1. /\ memo' \in [Procs -> Registries \cup {Nothing}]
        /\ memo'[p] # memo[p] => pc[p] = "idle"
        /\ \A q \in Procs \ {p}: memo'[q] = memo[q]
        /\ pc[p] = "idle"
        /\ recent' \subseteq Procs
    BY <1>10, <1>a DEF Forget
  <2>2. failures' \in [Procs -> [Servers -> 0 .. MaxFailures + 1]]
    BY <1>10, <1>a, <1>b DEF Forget
  <2>3. UNCHANGED <<day, file, copy, mishap, pc, domain, serial, left, heard, informed, zone, published>>
    BY <1>10 DEF Forget, dnsVars
  <2>4. QED
    BY <1>a, <2>1, <2>2, <2>3
<1>11. ASSUME NEW p \in Procs, Die(p) PROVE TypeInv'
  BY <1>11, <1>a, <1>b DEF Die, Ends, dnsVars
<1>12. ASSUME NEW s \in Servers, NEW d \in Domains, Transfer(s, d) PROVE TypeInv'
  <2>1. zone[d] \in Nat
    BY <1>a DEF Registries
  <2>2. published' \in [Servers -> Serials]
    BY <1>12, <1>a, <2>1 DEF Transfer, Serials
  <2>3. QED
    BY <1>12, <1>a, <2>2 DEF Transfer, regVars, callVars
<1>13. CASE NextDay
  <2>1. day' \in 1 .. MaxDay
    BY <1>13, <1>a, DnsAssumption DEF NextDay
  <2>2. QED
    BY <1>13, <1>a, <2>1 DEF NextDay, regVars, callVars, dnsVars
<1>14. QED
  BY <1>1, <1>2, <1>3, <1>4, <1>5, <1>6, <1>7, <1>8, <1>9, <1>10, <1>11, <1>12, <1>13 DEF Next

\* The types hold: the failures of a server stop being counted when it is skipped, and the dictionary
\* of a call in progress is there.
THEOREM TypeCorrect == Spec => []TypeOK
<1>1. Init => TypeInv
  BY InitTypeInv
<1>2. TypeInv /\ [Next]_vars => TypeInv'
  BY NextTypeInv
<1>3. TypeInv => TypeOK
  BY DEF TypeInv
<1>4. QED
  BY <1>1, <1>2, <1>3, PTL DEF Spec

(***************************************************************************)
(* The registry and the serials.  As long as all is well, whoever has a    *)
(* dictionary as recent as the file knows at least what was returned, and  *)
(* a call of his is above it from its first step to its last.              *)
(***************************************************************************)
Knows(p) == memo[p] # Nothing /\ \A d \in Domains: memo[p][d] >= zone[d]

Above(p) ==
    /\ pc[p] \in {"ask", "decide"} => serial[p] >= zone[domain[p]]
    /\ pc[p] = "write" => serial[p] > zone[domain[p]]

WellInv ==
    /\ TypeInv
    /\ RegistryRemembers
    /\ Well => \A p \in recent: Knows(p) /\ Above(p)

LEMMA InitWellInv == ASSUME Init PROVE WellInv
<1>1. TypeInv
  BY InitTypeInv
<1>2. Empty \in Registries /\ Nothing \notin Registries
  BY <1>1, NothingIsNoRegistry, DnsAssumption DEF Empty, Registries
<1>3. RegistryRemembers
  BY <1>2 DEF Init, RegistryRemembers, Empty
<1>4. QED
  BY <1>1, <1>3 DEF Init, WellInv

\* What a step leaves alone.
LEMMA WellUnchanged ==
    ASSUME WellInv, TypeInv',
           UNCHANGED <<file, zone, mishap>>,
           recent' \subseteq recent,
           \A q \in recent': /\ memo'[q] = memo[q] /\ domain'[q] = domain[q] /\ serial'[q] = serial[q]
                            /\ \/ pc'[q] = pc[q]
                               \/ pc[q] = "ask" /\ pc'[q] = "decide"
                               \/ pc'[q] = "idle"
    PROVE  WellInv'
<1>1. RegistryRemembers'
  BY DEF WellInv, RegistryRemembers, Well
<1>2. ASSUME Well', NEW q \in recent' PROVE Knows(q)' /\ Above(q)'
  BY <1>2 DEF WellInv, Well, Knows, Above
<1>3. QED
  BY <1>1, <1>2 DEF WellInv

LEMMA CallWell ==
    ASSUME WellInv, TypeInv', NEW p \in Procs, NEW d \in Domains, Call(p, d)
    PROVE  WellInv'
<1>a. TypeOK /\ RegistryRemembers /\ Decoded \in Registries /\ Nothing \notin Registries
  BY NothingIsNoRegistry, DecodedIsRegistry DEF WellInv, TypeInv
<1>1. /\ UNCHANGED <<zone, mishap>>
      /\ recent' \subseteq recent \cup {p}
      /\ \A q \in Procs \ {p}: /\ memo'[q] = memo[q] /\ domain'[q] = domain[q]
                              /\ serial'[q] = serial[q] /\ pc'[q] = pc[q]
      /\ domain'[p] = d /\ pc'[p] = "ask"
  BY <1>a DEF Call, dnsVars, TypeOK
<1>2. Well => file' = file /\ Decoded = file
  BY <1>a DEF Call, RegistryRemembers, Decoded
<1>3. RegistryRemembers'
  BY <1>1, <1>2, <1>a DEF RegistryRemembers, Well
<1>4. memo'[p] \in Registries
  BY <1>a DEF Call, TypeOK
<1>5. PICK stale \in BOOLEAN: serial' = [serial EXCEPT ![p] = Local(d, memo'[p][d], stale)]
  BY DEF Call
<1>6. serial'[p] \in Nat /\ serial'[p] >= memo'[p][d]
  <2>1. memo'[p][d] \in Nat
    BY <1>4 DEF Registries
  <2>2. QED
    BY <1>5, <1>a, <2>1, LocalAtLeast DEF TypeOK
<1>7. ASSUME Well', p \in recent' PROVE Knows(p)' /\ Above(p)'
  <2>1. \A e \in Domains: memo'[p][e] >= zone[e]
    <3>1. CASE memo[p] = Nothing
      <4>1. memo'[p] = file
        BY <3>1, <1>7, <1>1, <1>2, <1>a DEF Call, Well, TypeOK
      <4>2. QED
        BY <4>1, <1>7, <1>1, <1>a DEF RegistryRemembers, Well
    <3>2. CASE memo[p] # Nothing
      <4>1. p \in recent /\ memo'[p] = memo[p]
        BY <3>2, <1>7 DEF Call
      <4>2. QED
        BY <4>1, <1>7, <1>1 DEF WellInv, Well, Knows
    <3>3. QED
      BY <3>1, <3>2
  <2>2. zone[d] \in Nat /\ memo'[p][d] \in Nat
    BY <1>4, <1>a DEF TypeOK, Registries
  <2>3. serial'[p] >= zone[d]
    BY <2>1, <2>2, <1>6
  <2>4. QED
    BY <2>1, <2>3, <1>1, <1>4, <1>a DEF Knows, Above
<1>8. ASSUME Well', NEW q \in recent', q # p PROVE Knows(q)' /\ Above(q)'
  <2>1. q \in recent /\ q \in Procs /\ Well
    BY <1>8, <1>1, <1>a DEF Well, TypeOK
  <2>2. QED
    BY <2>1, <1>8, <1>1 DEF WellInv, Knows, Above
<1>9. QED
  BY <1>3, <1>7, <1>8 DEF WellInv

LEMMA DecideWell == ASSUME WellInv, TypeInv', NEW p \in Procs, Decide(p) PROVE WellInv'
<1>a. TypeOK /\ RegistryRemembers /\ Nothing \notin Registries
  BY NothingIsNoRegistry DEF WellInv, TypeInv
<1>1. /\ UNCHANGED <<zone, mishap, recent, domain>>
      /\ file' = Decoded
      /\ pc[p] \in {"ask", "decide"} /\ pc'[p] = "write"
      /\ serial'[p] = Decided(p)
      /\ \A q \in Procs \ {p}: memo'[q] = memo[q] /\ serial'[q] = serial[q] /\ pc'[q] = pc[q]
  BY <1>a DEF Decide, dnsVars, TypeOK
<1>2. RegistryRemembers'
  BY <1>1, <1>a DEF RegistryRemembers, Well, Decoded
<1>3. memo[p] \in Registries /\ domain[p] \in Domains
  BY <1>1, <1>a DEF TypeOK
<1>4. /\ memo'[p][domain[p]] = Decided(p)
      /\ \A d \in Domains: d # domain[p] => memo'[p][d] = memo[p][d]
  <2>1. memo'[p] = [memo[p] EXCEPT ![domain[p]] = Decided(p)]
    BY <1>a DEF Decide, TypeOK
  <2>2. QED
    BY <2>1, <1>3 DEF Registries
<1>5. Decided(p) \in Nat /\ Decided(p) > serial[p] /\ serial[p] \in Nat
  BY <1>a, DecidedIsMore DEF TypeOK
<1>6. ASSUME Well', p \in recent' PROVE Knows(p)' /\ Above(p)'
  <2>1. Well /\ p \in recent
    BY <1>6, <1>1 DEF Well
  <2>2. serial[p] >= zone[domain[p]] /\ Knows(p)
    BY <2>1, <1>1 DEF WellInv, Above
  <2>3. zone[domain[p]] \in Nat
    BY <1>3, <1>a DEF TypeOK, Registries
  <2>4. Decided(p) > zone[domain[p]]
    BY <2>2, <2>3, <1>5
  <2>5. \A d \in Domains: memo'[p][d] >= zone[d]
    BY <2>2, <2>3, <2>4, <1>4, <1>5 DEF Knows
  <2>6. memo'[p] # Nothing
    BY <1>1 DEF TypeInv, TypeOK
  <2>7. QED
    BY <2>4, <2>5, <2>6, <1>1 DEF Knows, Above
<1>7. ASSUME Well', NEW q \in recent', q # p PROVE Knows(q)' /\ Above(q)'
  <2>1. q \in recent /\ q \in Procs /\ Well
    BY <1>7, <1>1, <1>a DEF Well, TypeOK
  <2>2. QED
    BY <2>1, <1>7, <1>1 DEF WellInv, Knows, Above
<1>8. QED
  BY <1>2, <1>6, <1>7 DEF WellInv

LEMMA WriteWell == ASSUME WellInv, TypeInv', NEW p \in Procs, Write(p) PROVE WellInv'
<1>a. TypeOK /\ Kept /\ RegistryRemembers /\ Nothing \notin Registries
  BY NothingIsNoRegistry DEF WellInv, TypeInv
<1>1. SUFFICES ASSUME Well' PROVE RegistryRemembers' /\ \A q \in recent': Knows(q)' /\ Above(q)'
  BY DEF WellInv, RegistryRemembers
<1>2. Well /\ p \in recent /\ recent' \subseteq {p} /\ pc[p] = "write" /\ pc'[p] = "idle"
  BY <1>1, <1>a DEF Write, Ends, Well, TypeOK
<1>3. Knows(p) /\ serial[p] > zone[domain[p]]
  BY <1>2 DEF WellInv, Above
<1>4. /\ memo[p] \in Registries /\ copy[p] \in Registries /\ domain[p] \in Domains /\ zone \in Registries
      /\ memo[p][domain[p]] = serial[p] /\ serial[p] \in Nat
  BY <1>2, <1>a DEF TypeOK, Kept
<1>5. /\ zone'[domain[p]] = serial[p]
      /\ \A d \in Domains: d # domain[p] => zone'[d] = zone[d]
      /\ zone' \in Registries
      /\ memo' = memo
  BY <1>4 DEF Write, Registries, TypeInv, TypeOK
<1>6. \A d \in Domains: memo[p][d] >= zone'[d]
  BY <1>3, <1>4, <1>5 DEF Knows
<1>7. file' \in Registries /\ \A d \in Domains: file'[d] >= zone'[d]
  <2>1. file' = Updated(p) /\ Updated(p) \in Registries
    BY <1>2, <1>a, UpdatedIsRegistry DEF Write
  <2>2. ASSUME NEW d \in Domains PROVE Updated(p)[d] >= zone'[d]
    <3>1. memo[p][d] \in Nat /\ copy[p][d] \in Nat /\ zone'[d] \in Nat /\ memo[p][d] >= zone'[d]
      BY <1>4, <1>5, <1>6 DEF Registries
    <3>2. QED
      BY <3>1 DEF Updated
  <2>3. QED
    BY <2>1, <2>2
<1>8. QED
  BY <1>2, <1>3, <1>4, <1>5, <1>6, <1>7, <1>a DEF RegistryRemembers, Knows, Above

LEMMA NextWellInv == ASSUME WellInv, [Next]_vars PROVE WellInv'
<1>1. TypeInv' /\ TypeOK
  BY NextTypeInv DEF WellInv, TypeInv
<1>2. CASE UNCHANGED vars
  BY <1>1, <1>2, WellUnchanged DEF vars, regVars, callVars, dnsVars
<1>3. ASSUME NEW p \in Procs, NEW d \in Domains, Call(p, d) PROVE WellInv'
  BY <1>1, <1>3, CallWell
<1>4. ASSUME NEW p \in Procs, ResolverFails(p) PROVE WellInv'
  BY <1>1, <1>4, WellUnchanged DEF ResolverFails, regVars, dnsVars, TypeOK
<1>5. ASSUME NEW p \in Procs, NEW s \in Servers, Skips(p, s) \/ Answers(p, s) PROVE WellInv'
  BY <1>1, <1>5, WellUnchanged DEF Skips, Answers, regVars, dnsVars
<1>6. ASSUME NEW p \in Procs, NEW s \in Servers, Fails(p, s) PROVE WellInv'
  BY <1>1, <1>6, WellUnchanged DEF Fails, regVars, dnsVars, TypeOK
<1>7. ASSUME NEW p \in Procs, Decide(p) PROVE WellInv'
  BY <1>1, <1>7, DecideWell
<1>8. ASSUME NEW p \in Procs, Write(p) PROVE WellInv'
  BY <1>1, <1>8, WriteWell
<1>9. ASSUME NEW p \in Procs, Raises(p) PROVE WellInv'
  <2>1. RegistryRemembers'
    BY <1>9 DEF Raises, dnsVars, WellInv, RegistryRemembers, Well
  <2>2. ASSUME Well', NEW q \in recent' PROVE Knows(q)' /\ Above(q)'
    <3>1. Knows(q) /\ Above(q) /\ q \in Procs
      BY <1>1, <1>9, <2>2 DEF Raises, WellInv, Well, TypeOK
    <3>2. /\ UNCHANGED <<memo, zone, domain>>
          /\ pc'[q] = "idle" \/ (pc'[q] = pc[q] /\ serial'[q] = serial[q])
      BY <1>1, <1>9, <3>1 DEF Raises, Ends, dnsVars, TypeOK
    <3>3. QED
      BY <3>1, <3>2 DEF Knows, Above
  <2>3. QED
    BY <1>1, <2>1, <2>2 DEF WellInv
<1>10. ASSUME NEW p \in Procs, Forget(p) PROVE WellInv'
  <2>1. /\ UNCHANGED <<file, zone, mishap, domain, serial, pc>>
        /\ recent' \subseteq recent
        /\ \A q \in recent': memo'[q] = memo[q]
    BY <1>1, <1>10 DEF Forget, dnsVars, TypeOK
  <2>2. QED
    BY <1>1, <2>1, WellUnchanged
<1>11. ASSUME NEW p \in Procs, Die(p) PROVE WellInv'
  <2>1. CASE mishap'
    BY <1>1, <2>1 DEF WellInv, RegistryRemembers, Well
  <2>2. CASE ~mishap'
    <3>1. /\ UNCHANGED <<file, zone, mishap, domain>>
          /\ recent' = recent \ {p}
          /\ \A q \in recent': memo'[q] = memo[q] /\ serial'[q] = serial[q] /\ pc'[q] = pc[q]
      BY <1>1, <1>11, <2>2 DEF Die, Ends, dnsVars, TypeOK
    <3>2. QED
      BY <1>1, <3>1, WellUnchanged
  <2>3. QED
    BY <2>1, <2>2
<1>12. ASSUME NEW s \in Servers, NEW d \in Domains, Transfer(s, d) PROVE WellInv'
  BY <1>1, <1>12, WellUnchanged DEF Transfer, regVars, callVars
<1>13. CASE NextDay
  BY <1>1, <1>13, WellUnchanged DEF NextDay, regVars, callVars, dnsVars
<1>14. QED
  BY <1>2, <1>3, <1>4, <1>5, <1>6, <1>7, <1>8, <1>9, <1>10, <1>11, <1>12, <1>13 DEF Next

\* While nobody has written the registry with an outdated dictionary or died while writing it, it has
\* the serial of every zone that was returned.
THEOREM RegistryIsKept == Spec => []RegistryRemembers
<1>1. Init => WellInv
  BY InitWellInv
<1>2. WellInv /\ [Next]_vars => WellInv'
  BY NextWellInv
<1>3. WellInv => RegistryRemembers
  BY DEF WellInv
<1>4. QED
  BY <1>1, <1>2, <1>3, PTL DEF Spec

\* And so long a zone is only ever given a serial greater than the one it has.
THEOREM SerialsOnlyIncrease == Spec => SerialsIncrease
<1>1. Init => WellInv
  BY InitWellInv
<1>2. WellInv /\ [Next]_vars => WellInv'
  BY NextWellInv
<1>3. WellInv /\ [Next]_vars =>
        [\A p \in Procs: Write(p) /\ Well' => zone'[domain[p]] > zone[domain[p]]]_vars
  <2>1. SUFFICES ASSUME WellInv, NEW p \in Procs, Write(p), Well'
                 PROVE  zone'[domain[p]] > zone[domain[p]]
    OBVIOUS
  <2>2. Well /\ p \in recent /\ pc[p] = "write"
    BY <2>1 DEF Write, Well, WellInv, TypeInv, TypeOK
  <2>3. serial[p] > zone[domain[p]]
    BY <2>1, <2>2 DEF WellInv, Above
  <2>4. zone'[domain[p]] = serial[p]
    BY <2>1 DEF Write, WellInv, TypeInv, TypeOK, Registries
  <2>5. QED
    BY <2>3, <2>4
<1>4. QED
  BY <1>1, <1>2, <1>3, PTL DEF Spec, SerialsIncrease

(***************************************************************************)
(* The servers.  Nothing changes the zone or their copies of it under a    *)
(* call that has met no other and whose servers had what was last          *)
(* returned: what they have answered is what they have.                    *)
(***************************************************************************)
Alone(p) ==
    /\ pc[p] \in {"ask", "write"}
    /\ \A q \in Procs: Calling(q) => q = p

Caught(p) == \A s \in Servers: published[s][domain[p]] >= zone[domain[p]]

Informed(p) ==
    /\ pc[p] = "ask" => \A s \in Servers \ left[p]: heard[p] >= published[s][domain[p]]
    /\ pc[p] = "write" => \A s \in Servers: serial[p] > published[s][domain[p]]

FollowInv ==
    /\ TypeInv
    /\ \A p \in informed: Alone(p) /\ Caught(p) /\ Informed(p)

LEMMA InitFollowInv == ASSUME Init PROVE FollowInv
BY InitTypeInv DEF FollowInv, Init

\* The steps of a call that is over, and those that lose it an answer.
LEMMA FollowUnchanged ==
    ASSUME FollowInv, TypeInv',
           UNCHANGED <<zone, published, domain>>,
           informed' \subseteq informed,
           \A q \in Procs: pc'[q] # "idle" => pc[q] # "idle",
           \A q \in informed': /\ pc'[q] = pc[q] /\ left'[q] = left[q]
                              /\ heard'[q] = heard[q] /\ serial'[q] = serial[q]
    PROVE  FollowInv'
<1>1. ASSUME NEW p \in informed' PROVE Alone(p)' /\ Caught(p)' /\ Informed(p)'
  BY <1>1 DEF FollowInv, Alone, Calling, Caught, Informed
<1>2. QED
  BY <1>1 DEF FollowInv

LEMMA NextFollowInv == ASSUME FollowInv, [Next]_vars PROVE FollowInv'
<1>1. TypeInv /\ TypeOK /\ TypeInv'
  BY NextTypeInv DEF FollowInv, TypeInv
<1>2. CASE UNCHANGED vars
  BY <1>1, <1>2, FollowUnchanged DEF vars, regVars, callVars, dnsVars
<1>3. ASSUME NEW p \in Procs, NEW d \in Domains, Call(p, d) PROVE FollowInv'
  <2>1. SUFFICES ASSUME NEW q \in informed' PROVE Alone(q)' /\ Caught(q)' /\ Informed(q)'
    BY <1>1 DEF FollowInv
  <2>2. /\ q = p
        /\ \A r \in Procs: pc[r] = "idle"
        /\ \A s \in Servers: published[s][d] >= zone[d]
    BY <1>3 DEF Call, Calling
  <2>3. /\ pc' = [pc EXCEPT ![p] = "ask"]
        /\ left'[p] = Servers /\ domain'[p] = d
        /\ UNCHANGED <<zone, published>>
    BY <1>1, <1>3 DEF Call, dnsVars, TypeOK
  <2>4. QED
    BY <1>1, <2>2, <2>3 DEF Alone, Calling, Caught, Informed, TypeOK
<1>4. ASSUME NEW p \in Procs, ResolverFails(p) PROVE FollowInv'
  BY <1>1, <1>4, FollowUnchanged DEF ResolverFails, dnsVars, TypeOK
<1>5. ASSUME NEW p \in Procs, NEW s \in Servers, Skips(p, s) PROVE FollowInv'
  BY <1>1, <1>5, FollowUnchanged DEF Skips, dnsVars, TypeOK
<1>6. ASSUME NEW p \in Procs, NEW s \in Servers, Answers(p, s) PROVE FollowInv'
  <2>1. SUFFICES ASSUME NEW q \in informed' PROVE Alone(q)' /\ Caught(q)' /\ Informed(q)'
    BY <1>1 DEF FollowInv
  <2>2. /\ UNCHANGED <<pc, zone, published, domain, serial, informed>>
        /\ pc[p] = "ask"
        /\ left'[p] = left[p] \ {s}
        /\ heard'[p] = Larger(heard[p], published[s][domain[p]])
    BY <1>1, <1>6 DEF Answers, dnsVars, TypeOK
  <2>3. Alone(q) /\ Caught(q) /\ Informed(q) /\ q \in Procs
    BY <1>1, <2>1, <2>2 DEF FollowInv, TypeOK
  <2>4. q = p
    BY <2>2, <2>3 DEF Alone, Calling
  <2>5. ASSUME NEW t \in Servers \ left'[p] PROVE heard'[p] >= published[t][domain[p]]
    <3>1. /\ heard[p] \in Nat
          /\ published[s][domain[p]] \in Nat
          /\ published[t][domain[p]] \in Nat
      BY <1>1 DEF TypeOK, Serials
    <3>2. t = s \/ heard[p] >= published[t][domain[p]]
      BY <2>2, <2>3, <2>4, <2>5 DEF Informed
    <3>3. QED
      BY <2>2, <3>1, <3>2 DEF Larger
  <2>6. QED
    BY <2>2, <2>3, <2>4, <2>5 DEF Alone, Calling, Caught, Informed
<1>7. ASSUME NEW p \in Procs, NEW s \in Servers, Fails(p, s) PROVE FollowInv'
  BY <1>1, <1>7, FollowUnchanged DEF Fails, dnsVars, TypeOK
<1>8. ASSUME NEW p \in Procs, Decide(p) PROVE FollowInv'
  <2>1. SUFFICES ASSUME NEW q \in informed' PROVE Alone(q)' /\ Caught(q)' /\ Informed(q)'
    BY <1>1 DEF FollowInv
  <2>2. /\ UNCHANGED <<zone, published, domain, informed>>
        /\ pc[p] # "idle"
        /\ pc[p] = "ask" => left[p] = {}
        /\ pc' = [pc EXCEPT ![p] = "write"]
        /\ serial'[p] = Decided(p)
    BY <1>1, <1>8 DEF Decide, dnsVars, TypeOK
  <2>3. Alone(q) /\ Caught(q) /\ Informed(q) /\ q \in Procs
    BY <1>1, <2>1, <2>2 DEF FollowInv, TypeOK
  <2>4. q = p /\ pc[p] = "ask"
    <3>1. q = p
      BY <2>2, <2>3 DEF Alone, Calling
    <3>2. QED
      BY <1>8, <2>3, <3>1 DEF Alone, Decide
  <2>5. ASSUME NEW t \in Servers PROVE serial'[p] > published[t][domain[p]]
    <3>1. heard[p] \in Nat /\ published[t][domain[p]] \in Nat
      BY <1>1 DEF TypeOK, Serials
    <3>2. heard[p] >= published[t][domain[p]]
      BY <2>2, <2>3, <2>4 DEF Informed
    <3>3. Decided(p) \in Nat /\ Decided(p) > heard[p]
      BY <1>1, <2>4, DecidedIsMore
    <3>4. QED
      BY <2>2, <3>1, <3>2, <3>3
  <2>6. QED
    BY <1>1, <2>2, <2>3, <2>4, <2>5 DEF Alone, Calling, Caught, Informed, TypeOK
<1>9. ASSUME NEW p \in Procs, Write(p) PROVE FollowInv'
  <2>1. ASSUME NEW q \in informed' PROVE FALSE
    <3>1. q \in informed /\ q # p /\ pc[p] = "write"
      BY <1>1, <1>9, <2>1 DEF Write, Ends
    <3>2. QED
      BY <3>1 DEF FollowInv, Alone, Calling
  <2>2. QED
    BY <1>1, <2>1 DEF FollowInv
<1>10. ASSUME NEW p \in Procs, Raises(p) \/ Die(p) PROVE FollowInv'
  BY <1>1, <1>10, FollowUnchanged DEF Raises, Die, Ends, Calling, dnsVars, TypeOK
<1>11. ASSUME NEW p \in Procs, Forget(p) PROVE FollowInv'
  BY <1>1, <1>11, FollowUnchanged DEF Forget, dnsVars
<1>12. ASSUME NEW s \in Servers, NEW d \in Domains, Transfer(s, d) PROVE FollowInv'
  <2>1. SUFFICES ASSUME NEW q \in informed' PROVE Alone(q)' /\ Caught(q)' /\ Informed(q)'
    BY <1>1 DEF FollowInv
  <2>2. UNCHANGED <<pc, left, heard, serial, domain, informed, zone>>
    BY <1>12 DEF Transfer, callVars
  <2>3. Alone(q) /\ Caught(q) /\ Informed(q) /\ q \in Procs
    BY <1>1, <2>1, <2>2 DEF FollowInv, TypeOK
  <2>4. zone[d] \in Nat /\ published[s][d] \in Nat /\ zone[d] > published[s][d]
    BY <1>1, <1>12 DEF Transfer, TypeOK, Serials, Registries
  <2>5. d # domain[q]
    BY <2>3, <2>4 DEF Caught
  <2>6. \A t \in Servers: published'[t][domain[q]] = published[t][domain[q]]
    BY <1>1, <1>12, <2>5 DEF Transfer, TypeOK, Serials
  <2>7. QED
    BY <2>2, <2>3, <2>6 DEF Alone, Calling, Caught, Informed
<1>13. CASE NextDay
  BY <1>1, <1>13, FollowUnchanged DEF NextDay, callVars, dnsVars
<1>14. QED
  BY <1>2, <1>3, <1>4, <1>5, <1>6, <1>7, <1>8, <1>9, <1>10, <1>11, <1>12, <1>13 DEF Next

\* A call that meets no other, whose servers have what was last returned and all answer, gives the zone
\* a serial that each of them will take, whatever has happened to the registry.
THEOREM ServersWillFollow == Spec => ServersFollow
<1>1. Init => FollowInv
  BY InitFollowInv
<1>2. FollowInv /\ [Next]_vars => FollowInv'
  BY NextFollowInv
<1>3. FollowInv /\ [Next]_vars =>
        [\A p \in Procs:
           Write(p) /\ p \in informed =>
               \A s \in Servers: zone'[domain[p]] > published[s][domain[p]]]_vars
  <2>1. SUFFICES ASSUME FollowInv, NEW p \in Procs, Write(p), p \in informed, NEW s \in Servers
                 PROVE  zone'[domain[p]] > published[s][domain[p]]
    OBVIOUS
  <2>2. serial[p] > published[s][domain[p]]
    BY <2>1 DEF Write, FollowInv, Informed
  <2>3. zone'[domain[p]] = serial[p]
    BY <2>1 DEF Write, FollowInv, TypeInv, TypeOK, Registries
  <2>4. QED
    BY <2>2, <2>3
<1>4. QED
  BY <1>1, <1>2, <1>3, PTL DEF Spec, ServersFollow
=============================================================================
