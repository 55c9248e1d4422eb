----------------------- MODULE RulePersistenceProofs -----------------------
(***************************************************************************)
(* Proofs about RulePersistence for any calls of the rule API, any number   *)
(* of them, any command lines and any rules files.                          *)
(***************************************************************************)
EXTENDS RulePersistence, FiniteSetTheorems, SequenceTheorems, WellFoundedInduction, TLAPS

-----------------------------------------------------------------------------
(***************************************************************************)
(* What the operators of the model return.                                  *)
(***************************************************************************)

\* A set of numbers has a least member: what a property of all numbers is proved by.
LEMMA LeastMember ==
  ASSUME NEW S \in SUBSET Nat, S # {}
  PROVE  \E m \in S : \A n \in S : m <= n
<1> DEFINE R == OpToRel(<, Nat)
<1>1. \A m, n \in Nat : <<n, m>> \in R <=> n < m
  BY DEF OpToRel
<1>2. IsWellFoundedOn(R, Nat)
  BY NatLessThanWellFounded
<1> HIDE DEF R
<1>3. PICK m \in S : \A n \in S : <<n, m>> \notin R
  BY <1>2, WFMin
<1>4. \A n \in S : ~(n < m)
  BY <1>1, <1>3
<1> QED BY <1>4

\* SetToSeq lists the members of a finite set.
LEMMA ListsTheSet ==
  ASSUME NEW S, IsFiniteSet(S)
  PROVE  SetToSeq(S) \in Seq(S) /\ Range(SetToSeq(S)) = S
<1> DEFINE n == Cardinality(S)
           list == SetToSeq(S)
<1>1. n \in Nat /\ ExistsBijection(1..n, S)
  BY FS_CardinalityType
<1>2. \E f \in [1..n -> S] : IsInjective(f)
  BY <1>1 DEF ExistsBijection, Bijection, Injection, IsInjective
<1>3. list \in [1..n -> S] /\ IsInjective(list)
  BY <1>2 DEF SetToSeq
<1> HIDE DEF list
<1>4. list \in Injection(1..n, S)
  BY <1>3 DEF Injection, IsInjective
<1> HIDE DEF n
<1>5. Cardinality(1..n) = n
  BY <1>1, FS_Interval
<1>6. list \in Surjection(1..n, S)
  BY <1>4, <1>5, FS_Injection DEF n
<1>7. Range(list) = S
  BY <1>6 DEF Surjection, Range
<1>8. list \in Seq(S)
  BY <1>1, <1>3
<1> QED BY <1>7, <1>8 DEF list


\* f[i] says whether the i-th word is an option, for i up to m.
OptionsUpTo(args, f, m) ==
  f = [i \in 3..m |-> i = 3 \/ ~(f[i - 1] /\ args[i - 1] \in ValueOptions)]

\* The recursion over the words has a solution.
LEMMA OptionsExist ==
  ASSUME NEW args, NEW m \in Nat
  PROVE  \E f : OptionsUpTo(args, f, m)
<1> DEFINE S == {k \in Nat : ~\E f : OptionsUpTo(args, f, k)}
<1> SUFFICES ASSUME S # {} PROVE FALSE
  OBVIOUS
<1>1. PICK k \in S : \A n \in S : k <= n
  BY LeastMember
<1>2. k \in Nat /\ ~\E f : OptionsUpTo(args, f, k)
  OBVIOUS
<1>3. k > 3
  <2> SUFFICES ASSUME k <= 3 PROVE FALSE
    BY <1>2
  <2> DEFINE f == [i \in 3..k |-> TRUE]
  <2>1. \A i \in 3..k : i = 3
    BY <1>2
  <2>2. f = [i \in 3..k |-> i = 3 \/ ~(f[i - 1] /\ args[i - 1] \in ValueOptions)]
    <3>1. \A i \in 3..k : f[i] = (i = 3 \/ ~(f[i - 1] /\ args[i - 1] \in ValueOptions))
      BY <2>1, Zenon
    <3> HIDE DEF f
    <3>2. f = [i \in 3..k |-> f[i]]
      BY DEF f
    <3> QED BY <3>1, <3>2, Zenon
  <2>3. OptionsUpTo(args, f, k)
    BY <2>2 DEF OptionsUpTo
  <2> QED BY <1>2, <2>3
<1>4. k - 1 \in Nat /\ ~(k <= k - 1)
  BY <1>2, <1>3
<1>5. PICK g : OptionsUpTo(args, g, k - 1)
  BY <1>1, <1>4
<1> DEFINE Next3(h, i) == i = 3 \/ ~(h[i - 1] /\ args[i - 1] \in ValueOptions)
           f == [i \in 3..k |-> IF i = k THEN Next3(g, k) ELSE g[i]]
<1> HIDE DEF S
<1>6. \A i \in 3..k : f[i] = IF i = k THEN Next3(g, k) ELSE g[i]
  OBVIOUS
<1>7. \A i \in 3..(k - 1) : g[i] = Next3(g, i)
  BY <1>5 DEF OptionsUpTo
<1>8. \A i \in 3..k : f[i] = Next3(f, i)
  <2> SUFFICES ASSUME NEW i \in 3..k PROVE f[i] = Next3(f, i)
    OBVIOUS
  <2> HIDE DEF f
  <2>1. CASE i = 3
    <3>1. i # k /\ i \in 3..(k - 1)
      BY <1>2, <1>3, <2>1
    <3> QED BY <1>6, <1>7, <2>1, <3>1
  <2>2. CASE i # 3
    <3>1. i - 1 \in 3..k /\ i - 1 # k
      BY <1>2, <2>2
    <3>2. f[i - 1] = g[i - 1]
      BY <1>6, <3>1
    <3>3. Next3(f, i) = Next3(g, i)
      BY <3>2
    <3>4. f[i] = Next3(g, i)
      <4>1. CASE i = k
        BY <1>6, <4>1
      <4>2. CASE i # k
        <5>1. i \in 3..(k - 1)
          BY <1>2, <4>2
        <5> QED BY <1>6, <1>7, <4>2, <5>1
      <4> QED BY <4>1, <4>2
    <3> QED BY <3>3, <3>4
  <2> QED BY <2>1, <2>2
<1>9. f = [i \in 3..k |-> f[i]]
  OBVIOUS
<1> HIDE DEF f
<1>10. OptionsUpTo(args, f, k)
  BY <1>8, <1>9, Zenon DEF OptionsUpTo
<1> QED BY <1>2, <1>10

\* So every word after the files is an option but the value of the one before it.
LEMMA OptionsUnfold ==
  ASSUME NEW args, Len(args) \in Nat
  PROVE  \A i \in 3..Len(args) :
           IsOption(args)[i] <=> i = 3 \/ ~(IsOption(args)[i - 1] /\ args[i - 1] \in ValueOptions)
<1> DEFINE at == IsOption(args)
<1>1. at = CHOOSE f : OptionsUpTo(args, f, Len(args))
  BY DEF IsOption, OptionsUpTo
<1>2. OptionsUpTo(args, at, Len(args))
  BY <1>1, OptionsExist
<1> HIDE DEF at
<1>3. \A i \in 3..Len(args) : at[i] = (i = 3 \/ ~(at[i - 1] /\ args[i - 1] \in ValueOptions))
  BY <1>2 DEF OptionsUpTo
<1> QED BY <1>3 DEF at

\* The bits of a byte add up to it.
LEMMA BitsOfByte ==
  ASSUME NEW n \in Bytes
  PROVE  n = (n % 2) + 2 * ((n \div 2) % 2) + 4 * ((n \div 4) % 2) + 8 * ((n \div 8) % 2)
               + 16 * ((n \div 16) % 2) + 32 * ((n \div 32) % 2) + 64 * ((n \div 64) % 2)
               + 128 * ((n \div 128) % 2)
BY DEF Bytes

\* A byte has no bits above its eight.
LEMMA NothingAbove ==
  ASSUME NEW n \in Bytes
  PROVE  /\ (n \div 1) % 256 = n /\ (n \div 256) % 256 = 0
         /\ (n \div 65536) % 256 = 0 /\ (n \div 16777216) % 256 = 0
BY DEF Bytes

\* The text of an address is read back as the address, and any text as some address.
LEMMA AddressReadsBack ==
  /\ \A ip \in IPs : ParseIP(ip) = ip
  /\ \A text : ParseIP(text) \in IPs
<1> DEFINE Shift(k, i) == <<1, 256, 65536, 16777216>>[i - k + 1]
           Part(text, k, i) == IF k \in DOMAIN text THEN (text[k] \div Shift(k, i)) % 256 ELSE 0
           Bit(text, i, w) == IF \E k \in 1..i : (Part(text, k, i) \div w) % 2 = 1 THEN w ELSE 0
           Byte(text, i) == Bit(text, i, 1) + Bit(text, i, 2) + Bit(text, i, 4) + Bit(text, i, 8)
                              + Bit(text, i, 16) + Bit(text, i, 32) + Bit(text, i, 64) + Bit(text, i, 128)
<1>1. \A text : ParseIP(text) = <<Byte(text, 1), Byte(text, 2), Byte(text, 3), Byte(text, 4)>>
  BY DEF ParseIP
<1>2. \A text, i, w : Bit(text, i, w) \in {0, w}
  OBVIOUS
<1> HIDE DEF Bit
<1>3. \A text, i : Byte(text, i) \in Bytes
  <2> SUFFICES ASSUME NEW text, NEW i PROVE Byte(text, i) \in Bytes
    OBVIOUS
  <2>1. /\ Bit(text, i, 1) \in {0, 1} /\ Bit(text, i, 2) \in {0, 2}
        /\ Bit(text, i, 4) \in {0, 4} /\ Bit(text, i, 8) \in {0, 8}
        /\ Bit(text, i, 16) \in {0, 16} /\ Bit(text, i, 32) \in {0, 32}
        /\ Bit(text, i, 64) \in {0, 64} /\ Bit(text, i, 128) \in {0, 128}
    BY <1>2
  <2> QED BY <2>1 DEF Bytes
<1>4. ASSUME NEW ip \in IPs, NEW i \in 1..4 PROVE Byte(ip, i) = ip[i]
  <2>1. DOMAIN ip = 1..4 /\ ip[i] \in Bytes /\ \A k \in 1..4 : ip[k] \in Bytes
    BY DEF IPs
  <2>2. \A k \in 1..i : Part(ip, k, i) = IF k = i THEN ip[i] ELSE 0
    <3> SUFFICES ASSUME NEW k \in 1..i PROVE Part(ip, k, i) = IF k = i THEN ip[i] ELSE 0
      OBVIOUS
    <3>1. k \in 1..4 /\ i - k + 1 \in 1..4
      OBVIOUS
    <3>2. Shift(k, i) = CASE i - k = 0 -> 1 [] i - k = 1 -> 256 [] i - k = 2 -> 65536 [] i - k = 3 -> 16777216
      BY <3>1
    <3>3. Part(ip, k, i) = (ip[k] \div Shift(k, i)) % 256
      BY <2>1, <3>1
    <3> HIDE DEF Part, Shift
    <3>4. i - k \in 0..3
      BY <3>1
    <3>5. ip[k] \in Bytes
      BY <2>1, <3>1
    <3>6. CASE i - k = 0
      BY <3>2, <3>3, <3>5, <3>6, NothingAbove
    <3>7. CASE i - k = 1
      BY <3>2, <3>3, <3>5, <3>7, NothingAbove
    <3>8. CASE i - k = 2
      BY <3>2, <3>3, <3>5, <3>8, NothingAbove
    <3>9. CASE i - k = 3
      BY <3>2, <3>3, <3>5, <3>9, NothingAbove
    <3> QED BY <3>4, <3>6, <3>7, <3>8, <3>9
  <2> DEFINE n == ip[i]
  <2> HIDE DEF Part
  <2>3. \A w \in {1, 2, 4, 8, 16, 32, 64, 128} : Bit(ip, i, w) = w * ((n \div w) % 2)
    <3> SUFFICES ASSUME NEW w \in {1, 2, 4, 8, 16, 32, 64, 128}
                 PROVE  Bit(ip, i, w) = w * ((n \div w) % 2)
      OBVIOUS
    <3>1. i \in 1..i
      OBVIOUS
    <3>2. (0 \div w) % 2 # 1
      OBVIOUS
    <3>3. (\E k \in 1..i : (Part(ip, k, i) \div w) % 2 = 1) <=> (n \div w) % 2 = 1
      BY <2>2, <3>1, <3>2
    <3>4. Bit(ip, i, w) = IF (n \div w) % 2 = 1 THEN w ELSE 0
      BY <3>3 DEF Bit
    <3>5. (n \div w) % 2 \in {0, 1}
      BY <2>1 DEF Bytes
    <3> HIDE DEF n
    <3> QED BY <3>4, <3>5
  <2> HIDE DEF Byte
  <2>4. Byte(ip, i) = (1 * ((n \div 1) % 2)) + 2 * ((n \div 2) % 2) + 4 * ((n \div 4) % 2) + 8 * ((n \div 8) % 2)
                        + 16 * ((n \div 16) % 2) + 32 * ((n \div 32) % 2) + 64 * ((n \div 64) % 2)
                        + 128 * ((n \div 128) % 2)
    BY <2>3 DEF Byte
  <2>5. n \in Bytes /\ 1 * ((n \div 1) % 2) = n % 2
    BY <2>1 DEF Bytes
  <2> HIDE DEF n
  <2>6. Byte(ip, i) = n
    BY <2>4, <2>5, BitsOfByte
  <2> QED BY <2>6 DEF n
<1> HIDE DEF Byte
<1>5. ASSUME NEW ip \in IPs PROVE ParseIP(ip) = ip
  <2>1. ip = <<ip[1], ip[2], ip[3], ip[4]>>
    BY DEF IPs
  <2> QED BY <1>1, <1>4, <2>1
<1>6. ASSUME NEW text PROVE ParseIP(text) \in IPs
  BY <1>1, <1>3 DEF IPs
<1> QED BY <1>5, <1>6

-----------------------------------------------------------------------------
(***************************************************************************)
(* What a store is, and what the calls of the rule API make of it.          *)
(***************************************************************************)

\* A store whose exact domains are among some texts.  What tells a domain from a
\* pattern is its '*'.
Stores(texts) ==
  [ips : SUBSET IPs, apps : SUBSET AppNames, domains : SUBSET (texts \ Wildcards),
   patterns : Seq(Wildcards), ports : SUBSET Ports]

\* A store as any calls leave it.
IsStore(s) == \E texts : s \in Stores(texts)

\* Its tables are finite.
IsSmall(s) == IsFiniteSet(s.ips) /\ IsFiniteSet(s.apps) /\ IsFiniteSet(s.domains) /\ IsFiniteSet(s.ports)

\* A store is what TypeOK says.
LEMMA StoresHaveTheType ==
  ASSUME NEW s, IsStore(s)
  PROVE  StoreType(s)
<1>1. PICK texts : s \in Stores(texts)
  BY DEF IsStore
<1>2. DOMAIN s = {"ips", "apps", "domains", "patterns", "ports"}
  BY <1>1 DEF Stores
<1>3. s.ips \subseteq IPs /\ s.apps \subseteq AppNames /\ s.ports \subseteq Ports
  BY <1>1 DEF Stores
<1>4. s.domains \cap Wildcards = {}
  BY <1>1 DEF Stores
<1>5. ToSet(s.patterns) \subseteq Wildcards
  BY <1>1 DEF Stores, ToSet
<1> QED BY <1>2, <1>3, <1>4, <1>5 DEF StoreType

\* An engine starts without rules.
LEMMA EmptyIsStore == IsStore(EmptyStore) /\ IsSmall(EmptyStore) /\ RulesIn(EmptyStore) = {}
<1>1. EmptyStore \in Stores({})
  BY DEF EmptyStore, Stores
<1>2. IsSmall(EmptyStore)
  BY FS_EmptySet DEF IsSmall, EmptyStore
<1>3. Range(<<>>) = {}
  BY DEF Range
<1>4. RulesIn(EmptyStore) = {}
  BY <1>3 DEF RulesIn, EmptyStore
<1> QED BY <1>1, <1>2, <1>4 DEF IsStore

\* A finite set stays so.
LEMMA OneMore ==
  \A S : IsFiniteSet(S) => \A x : IsFiniteSet(S \cup {x})
BY FS_AddElement

\* Adding an address to those blocked.
LEMMA IPAdds ==
  ASSUME NEW s, IsStore(s), NEW v
  PROVE  /\ IsStore(BlockIP(s, v)) /\ RulesIn(BlockIP(s, v)) = RulesIn(s) \cup {<<"IP", ParseIP(v)>>}
         /\ IsSmall(s) => IsSmall(BlockIP(s, v))
<1>1. PICK texts : s \in Stores(texts)
  BY DEF IsStore
<1>2. ParseIP(v) \in IPs
  BY AddressReadsBack
<1>3. /\ BlockIP(s, v).ips = s.ips \cup {ParseIP(v)} /\ BlockIP(s, v).apps = s.apps
      /\ BlockIP(s, v).domains = s.domains /\ BlockIP(s, v).patterns = s.patterns
      /\ BlockIP(s, v).ports = s.ports
  BY <1>1 DEF BlockIP, Stores
<1>4. BlockIP(s, v) \in Stores(texts)
  BY <1>1, <1>2 DEF BlockIP, Stores
<1>5. RulesIn(BlockIP(s, v)) = RulesIn(s) \cup {<<"IP", ParseIP(v)>>}
  BY <1>3 DEF RulesIn
<1>6. ASSUME IsSmall(s) PROVE IsSmall(BlockIP(s, v))
  <2>1. IsFiniteSet(BlockIP(s, v).ips)
    <3>1. IsFiniteSet(s.ips)
      BY <1>6 DEF IsSmall
    <3>2. IsFiniteSet(s.ips \cup {ParseIP(v)})
      BY <3>1, OneMore
    <3> QED BY <1>3, <3>1, <3>2
  <2> QED BY <1>3, <1>6, <2>1 DEF IsSmall
<1> QED BY <1>4, <1>5, <1>6 DEF IsStore

\* Adding an application; a name no application has adds none.
LEMMA AppAdds ==
  ASSUME NEW s, IsStore(s), NEW v
  PROVE  /\ IsStore(BlockApp(s, v))
         /\ RulesIn(BlockApp(s, v)) = RulesIn(s) \cup {<<"APP", app>> : app \in {v} \cap AppNames}
         /\ IsSmall(s) => IsSmall(BlockApp(s, v))
<1>1. PICK texts : s \in Stores(texts)
  BY DEF IsStore
<1>3. /\ BlockApp(s, v).apps = s.apps \cup ({v} \cap AppNames) /\ BlockApp(s, v).ips = s.ips
      /\ BlockApp(s, v).domains = s.domains /\ BlockApp(s, v).patterns = s.patterns
      /\ BlockApp(s, v).ports = s.ports
  BY <1>1 DEF BlockApp, Stores
<1>4. BlockApp(s, v) \in Stores(texts)
  BY <1>1 DEF BlockApp, Stores
<1>5. RulesIn(BlockApp(s, v)) = RulesIn(s) \cup {<<"APP", app>> : app \in {v} \cap AppNames}
  BY <1>3 DEF RulesIn
<1>6. s.apps \cup ({v} \cap AppNames) = s.apps \/ s.apps \cup ({v} \cap AppNames) = s.apps \cup {v}
  OBVIOUS
<1>7. ASSUME IsSmall(s) PROVE IsSmall(BlockApp(s, v))
  <2>1. IsFiniteSet(BlockApp(s, v).apps)
    <3>1. IsFiniteSet(s.apps)
      BY <1>7 DEF IsSmall
    <3>2. IsFiniteSet(s.apps \cup {v})
      BY <3>1, OneMore
    <3> QED BY <1>3, <1>6, <3>1, <3>2
  <2> QED BY <1>3, <1>7, <2>1 DEF IsSmall
<1> QED BY <1>4, <1>5, <1>7 DEF IsStore

\* What a pattern put at the end of a list makes of its members.
LEMMA AppendAdds ==
  ASSUME NEW S, NEW s \in Seq(S), NEW v \in S
  PROVE  Append(s, v) \in Seq(S) /\ Range(Append(s, v)) = Range(s) \cup {v}
<1>1. Append(s, v) \in Seq(S) /\ Len(Append(s, v)) = Len(s) + 1
  OBVIOUS
<1>2. \A i \in 1..Len(s) : Append(s, v)[i] = s[i]
  OBVIOUS
<1>3. Append(s, v)[Len(s) + 1] = v
  OBVIOUS
<1>4. DOMAIN s = 1..Len(s) /\ DOMAIN Append(s, v) = 1..(Len(s) + 1) /\ Len(s) \in Nat
  OBVIOUS
<1>5. \A x : x \in Range(Append(s, v)) <=> \E i \in 1..(Len(s) + 1) : x = Append(s, v)[i]
  BY <1>4 DEF Range
<1>6. \A x : x \in Range(s) <=> \E i \in 1..Len(s) : x = s[i]
  BY <1>4 DEF Range
<1>7. \A i : i \in 1..(Len(s) + 1) <=> i \in 1..Len(s) \/ i = Len(s) + 1
  BY <1>4
<1>8. \A x : x \in Range(Append(s, v)) <=> x \in Range(s) \/ x = v
  BY <1>2, <1>3, <1>5, <1>6, <1>7
<1> QED BY <1>1, <1>8

\* Adding a domain or a pattern.
LEMMA DomainAdds ==
  ASSUME NEW s, IsStore(s), NEW v
  PROVE  /\ IsStore(BlockDomain(s, v)) /\ RulesIn(BlockDomain(s, v)) = RulesIn(s) \cup {<<"DOMAIN", v>>}
         /\ IsSmall(s) => IsSmall(BlockDomain(s, v))
<1>1. PICK texts : s \in Stores(texts)
  BY DEF IsStore
<1>2. CASE v \in Wildcards
  <2>1. s.patterns \in Seq(Wildcards)
    BY <1>1 DEF Stores
  <2>2. /\ Append(s.patterns, v) \in Seq(Wildcards)
        /\ Range(Append(s.patterns, v)) = Range(s.patterns) \cup {v}
    BY <1>2, <2>1, AppendAdds
  <2>3. /\ BlockDomain(s, v).apps = s.apps /\ BlockDomain(s, v).ips = s.ips
        /\ BlockDomain(s, v).domains = s.domains /\ BlockDomain(s, v).patterns = Append(s.patterns, v)
        /\ BlockDomain(s, v).ports = s.ports
    BY <1>1, <1>2 DEF BlockDomain, Stores
  <2>4. BlockDomain(s, v) \in Stores(texts)
    BY <1>1, <1>2, <2>2 DEF BlockDomain, Stores
  <2>5. RulesIn(BlockDomain(s, v)) = RulesIn(s) \cup {<<"DOMAIN", v>>}
    BY <2>2, <2>3 DEF RulesIn
  <2>6. IsSmall(s) => IsSmall(BlockDomain(s, v))
    BY <2>3 DEF IsSmall
  <2> QED BY <2>4, <2>5, <2>6 DEF IsStore
<1>3. CASE v \notin Wildcards
  <2>3. /\ BlockDomain(s, v).apps = s.apps /\ BlockDomain(s, v).ips = s.ips
        /\ BlockDomain(s, v).domains = s.domains \cup {v} /\ BlockDomain(s, v).patterns = s.patterns
        /\ BlockDomain(s, v).ports = s.ports
    BY <1>1, <1>3 DEF BlockDomain, Stores
  <2>4. BlockDomain(s, v) \in Stores(texts \cup {v})
    BY <1>1, <1>3 DEF BlockDomain, Stores
  <2>5. RulesIn(BlockDomain(s, v)) = RulesIn(s) \cup {<<"DOMAIN", v>>}
    BY <2>3 DEF RulesIn
  <2>6. IsSmall(s) => IsSmall(BlockDomain(s, v))
    BY <2>3, OneMore DEF IsSmall
  <2> QED BY <2>4, <2>5, <2>6 DEF IsStore
<1> QED BY <1>2, <1>3

\* Adding a port, of which sixteen bits are kept.
LEMMA PortAdds ==
  ASSUME NEW s, IsStore(s), NEW v \in Int
  PROVE  /\ IsStore(BlockPort(s, v)) /\ RulesIn(BlockPort(s, v)) = RulesIn(s) \cup {<<"PORT", v % 65536>>}
         /\ IsSmall(s) => IsSmall(BlockPort(s, v))
<1> DEFINE port == v % 65536
<1>1. PICK texts : s \in Stores(texts)
  BY DEF IsStore
<1>2. port \in Ports
  BY DEF Ports
<1>3. BlockPort(s, v) = [s EXCEPT !.ports = @ \cup {port}]
  BY DEF BlockPort
<1> HIDE DEF port
<1>4. /\ BlockPort(s, v).apps = s.apps /\ BlockPort(s, v).ips = s.ips
      /\ BlockPort(s, v).domains = s.domains /\ BlockPort(s, v).patterns = s.patterns
      /\ BlockPort(s, v).ports = s.ports \cup {port}
  BY <1>1, <1>3 DEF Stores
<1>5. BlockPort(s, v) \in Stores(texts)
  BY <1>1, <1>2, <1>3 DEF Stores
<1>6. RulesIn(BlockPort(s, v)) = RulesIn(s) \cup {<<"PORT", port>>}
  BY <1>4 DEF RulesIn
<1>7. ASSUME IsSmall(s) PROVE IsSmall(BlockPort(s, v))
  <2>1. IsFiniteSet(BlockPort(s, v).ports)
    <3>1. IsFiniteSet(s.ports)
      BY <1>7 DEF IsSmall
    <3>2. IsFiniteSet(s.ports \cup {port})
      BY <3>1, OneMore
    <3> QED BY <1>4, <3>2
  <2> QED BY <1>4, <1>7, <2>1 DEF IsSmall
<1> QED BY <1>5, <1>6, <1>7 DEF IsStore, port

\* Taking one pattern out leaves a list of patterns.
LEMMA PatternsLeft ==
  ASSUME NEW S, NEW s \in Seq(S), NEW v
  PROVE  RemoveFirst(s, v) \in Seq(S)
<1> DEFINE I == {i \in 1..Len(s) : s[i] = v}
<1>1. RemoveFirst(s, v) = IF \E i \in 1..Len(s) : s[i] = v
                          THEN RemoveAt(s, IF I # {} THEN Min(I) ELSE 0) ELSE s
  BY DEF RemoveFirst, SelectInSeq
<1>2. ASSUME I # {} PROVE Min(I) \in I
  <2>1. I \in SUBSET Nat
    OBVIOUS
  <2>2. \E m \in I : \A n \in I : m <= n
    BY <1>2, <2>1, LeastMember
  <2> HIDE DEF I
  <2> QED BY <2>2 DEF Min
<1>3. ASSUME NEW i \in 1..Len(s) PROVE RemoveAt(s, i) \in Seq(S)
  <2>1. SubSeq(s, 1, i - 1) \in Seq(S) /\ SubSeq(s, i + 1, Len(s)) \in Seq(S)
    BY SubSeqProperties
  <2> QED BY <2>1 DEF RemoveAt
<1>4. (\E i \in 1..Len(s) : s[i] = v) <=> I # {}
  OBVIOUS
<1>5. \A i \in I : i \in 1..Len(s)
  OBVIOUS
<1> HIDE DEF I
<1> QED BY <1>1, <1>2, <1>3, <1>4, <1>5

\* Every call that lifts rules, of one kind or all of a table, leaves a store.
LEMMA UnblockIsStore ==
  ASSUME NEW s, IsStore(s), NEW v
  PROVE  /\ IsStore(UnblockIP(s, v)) /\ IsStore(UnblockApp(s, v)) /\ IsStore(UnblockDomain(s, v))
         /\ IsStore(UnblockPort(s, v))
         /\ IsSmall(s) => /\ IsSmall(UnblockIP(s, v)) /\ IsSmall(UnblockApp(s, v))
                          /\ IsSmall(UnblockDomain(s, v)) /\ IsSmall(UnblockPort(s, v))
<1>1. PICK texts : s \in Stores(texts)
  BY DEF IsStore
<1>2. UnblockIP(s, v) \in Stores(texts) /\ (IsSmall(s) => IsSmall(UnblockIP(s, v)))
  <2>1. UnblockIP(s, v) \in Stores(texts)
    BY <1>1 DEF UnblockIP, Stores
  <2>2. /\ UnblockIP(s, v).ips \subseteq s.ips /\ UnblockIP(s, v).apps = s.apps
        /\ UnblockIP(s, v).domains = s.domains /\ UnblockIP(s, v).ports = s.ports
    BY <1>1 DEF UnblockIP, Stores
  <2> QED BY <2>1, <2>2, FS_Subset DEF IsSmall
<1>3. UnblockApp(s, v) \in Stores(texts) /\ (IsSmall(s) => IsSmall(UnblockApp(s, v)))
  <2>1. UnblockApp(s, v) \in Stores(texts)
    BY <1>1 DEF UnblockApp, Stores
  <2>2. /\ UnblockApp(s, v).ips = s.ips /\ UnblockApp(s, v).apps \subseteq s.apps
        /\ UnblockApp(s, v).domains = s.domains /\ UnblockApp(s, v).ports = s.ports
    BY <1>1 DEF UnblockApp, Stores
  <2> QED BY <2>1, <2>2, FS_Subset DEF IsSmall
<1>4. UnblockDomain(s, v) \in Stores(texts) /\ (IsSmall(s) => IsSmall(UnblockDomain(s, v)))
  <2>1. s.patterns \in Seq(Wildcards)
    BY <1>1 DEF Stores
  <2>2. RemoveFirst(s.patterns, v) \in Seq(Wildcards)
    BY <2>1, PatternsLeft
  <2>3. UnblockDomain(s, v) \in Stores(texts)
    BY <1>1, <2>2 DEF UnblockDomain, Stores
  <2>4. /\ UnblockDomain(s, v).ips = s.ips /\ UnblockDomain(s, v).apps = s.apps
        /\ UnblockDomain(s, v).domains \subseteq s.domains /\ UnblockDomain(s, v).ports = s.ports
    BY <1>1 DEF UnblockDomain, Stores
  <2> QED BY <2>3, <2>4, FS_Subset DEF IsSmall
<1>5. UnblockPort(s, v) \in Stores(texts) /\ (IsSmall(s) => IsSmall(UnblockPort(s, v)))
  <2> DEFINE port == v % 65536
  <2>0. UnblockPort(s, v) = [s EXCEPT !.ports = @ \ {port}]
    BY DEF UnblockPort
  <2> HIDE DEF port
  <2>1. UnblockPort(s, v) \in Stores(texts)
    BY <1>1, <2>0 DEF Stores
  <2>2. /\ UnblockPort(s, v).ips = s.ips /\ UnblockPort(s, v).apps = s.apps
        /\ UnblockPort(s, v).domains = s.domains /\ UnblockPort(s, v).ports \subseteq s.ports
    BY <1>1, <2>0 DEF Stores
  <2> QED BY <2>1, <2>2, FS_Subset DEF IsSmall
<1> QED BY <1>2, <1>3, <1>4, <1>5 DEF IsStore

-----------------------------------------------------------------------------
(***************************************************************************)
(* The rules table by table, and what saveRules writes of a table.          *)
(***************************************************************************)

\* The kinds of rules in the order of the tables, and the rules of a store table by
\* table.
Kinds == <<"IP", "APP", "DOMAIN", "PORT">>

Texts(s, k) ==
  IF k = 1 THEN s.ips ELSE IF k = 2 THEN s.apps
  ELSE IF k = 3 THEN s.domains \cup Range(s.patterns) ELSE s.ports

\* What is written of a rule is read back as that rule.
Readable(k, text) ==
  (k = 1 => text \in IPs) /\ (k = 2 => text \in AppNames) /\ (k = 4 => text \in Ports)

\* The tables are four, and their sections have different names.
LEMMA FourTables ==
  /\ DOMAIN Tables = 1..4 /\ Len(Tables) = 4
  /\ \A k \in 1..4 : k = 1 \/ k = 2 \/ k = 3 \/ k = 4
  /\ \A j, k \in 1..4 : Tables[j] = Tables[k] => j = k
  /\ Tables[1] = "[BLOCKED_IPS]" /\ Tables[2] = "[BLOCKED_APPS]"
  /\ Tables[3] = "[BLOCKED_DOMAINS]" /\ Tables[4] = "[BLOCKED_PORTS]"
<1>1. DOMAIN Tables = 1..4 /\ Len(Tables) = 4
  BY DEF Tables
<1>2. \A k \in 1..4 : k = 1 \/ k = 2 \/ k = 3 \/ k = 4
  OBVIOUS
<1>3. /\ Tables[1] = "[BLOCKED_IPS]" /\ Tables[2] = "[BLOCKED_APPS]"
      /\ Tables[3] = "[BLOCKED_DOMAINS]" /\ Tables[4] = "[BLOCKED_PORTS]"
  BY DEF Tables
<1>4. ASSUME NEW j \in 1..4, NEW k \in 1..4, Tables[j] = Tables[k] PROVE j = k
  BY <1>2, <1>3, <1>4
<1> QED BY <1>1, <1>2, <1>3, <1>4

\* The rules of a store are those of its tables.
LEMMA RulesByTable ==
  \A s, r : r \in RulesIn(s) <=> \E k \in 1..4 : \E x \in Texts(s, k) : r = <<Kinds[k], x>>
<1> SUFFICES ASSUME NEW s, NEW r
             PROVE r \in RulesIn(s) <=> \E k \in 1..4 : \E x \in Texts(s, k) : r = <<Kinds[k], x>>
  OBVIOUS
<1> DEFINE Of(k) == \E x \in Texts(s, k) : r = <<Kinds[k], x>>
<1>1. Kinds[1] = "IP" /\ Kinds[2] = "APP" /\ Kinds[3] = "DOMAIN" /\ Kinds[4] = "PORT"
  BY DEF Kinds
<1>2. Of(1) <=> \E x \in s.ips : r = <<"IP", x>>
  BY <1>1 DEF Texts
<1>3. Of(2) <=> \E x \in s.apps : r = <<"APP", x>>
  BY <1>1 DEF Texts
<1>4. Of(3) <=> \E x \in s.domains \cup Range(s.patterns) : r = <<"DOMAIN", x>>
  BY <1>1 DEF Texts
<1>5. Of(4) <=> \E x \in s.ports : r = <<"PORT", x>>
  BY <1>1 DEF Texts
<1>6. r \in RulesIn(s) <=> \/ \E x \in s.ips : r = <<"IP", x>>
                           \/ \E x \in s.apps : r = <<"APP", x>>
                           \/ \E x \in s.domains \cup Range(s.patterns) : r = <<"DOMAIN", x>>
                           \/ \E x \in s.ports : r = <<"PORT", x>>
  BY DEF RulesIn
<1>7. (\E k \in 1..4 : Of(k)) <=> Of(1) \/ Of(2) \/ Of(3) \/ Of(4)
  <2> HIDE DEF Of
  <2> QED BY FourTables
<1> QED BY <1>2, <1>3, <1>4, <1>5, <1>6, <1>7, Zenon

\* The texts of a store can be read back.
LEMMA TextsAreReadable ==
  ASSUME NEW s, IsStore(s), NEW k \in 1..4, NEW x \in Texts(s, k)
  PROVE  Readable(k, x)
<1>1. PICK texts : s \in Stores(texts)
  BY DEF IsStore
<1>2. s.ips \subseteq IPs /\ s.apps \subseteq AppNames /\ s.ports \subseteq Ports
  BY <1>1 DEF Stores
<1> QED BY <1>2 DEF Texts, Readable

\* The entries that are written for a finite set.
LEMMA EntriesOfSet ==
  ASSUME NEW S, IsFiniteSet(S)
  PROVE  /\ Entries(S) \in Seq({Entry(x) : x \in S})
         /\ \A x \in S : \E j \in 1..Len(Entries(S)) : Entries(S)[j] = Entry(x)
<1> DEFINE s == SetToSeq(S)
<1>1. s \in Seq(S) /\ Range(s) = S
  BY ListsTheSet
<1> HIDE DEF s
<1>2. Entries(S) = [i \in DOMAIN s |-> Entry(s[i])]
  BY DEF Entries, s
<1>3. DOMAIN s = 1..Len(s) /\ Len(s) \in Nat /\ \A i \in 1..Len(s) : s[i] \in S
  BY <1>1
<1>4. Entries(S) \in Seq({Entry(x) : x \in S}) /\ Len(Entries(S)) = Len(s)
  BY <1>2, <1>3
<1>5. \A x \in S : \E j \in 1..Len(s) : s[j] = x
  BY <1>1, <1>3 DEF Range
<1> QED BY <1>2, <1>3, <1>4, <1>5

\* What saveRules writes for a table: its section, and its rules under it.
LEMMA TableWritten ==
  ASSUME NEW s, IsStore(s), IsSmall(s), NEW k \in 1..4
  PROVE  \E e : /\ SavedTable(s, Tables[k]) = <<Section(Tables[k])>> \o e
                /\ e \in Seq({Entry(x) : x \in Texts(s, k)})
                /\ \A x \in Texts(s, k) : \E j \in 1..Len(e) : e[j] = Entry(x)
<1>0. IsFiniteSet(s.ips) /\ IsFiniteSet(s.apps) /\ IsFiniteSet(s.domains) /\ IsFiniteSet(s.ports)
  BY DEF IsSmall
<1>1. CASE k = 1
  <2>1. SavedTable(s, Tables[k]) = <<Section(Tables[k])>> \o Entries(s.ips)
    BY <1>1, FourTables DEF SavedTable
  <2>2. Texts(s, k) = s.ips
    BY <1>1 DEF Texts
  <2>3. /\ Entries(s.ips) \in Seq({Entry(x) : x \in s.ips})
        /\ \A x \in s.ips : \E j \in 1..Len(Entries(s.ips)) : Entries(s.ips)[j] = Entry(x)
    BY <1>0, EntriesOfSet
  <2> QED BY <2>1, <2>2, <2>3, Zenon
<1>2. CASE k = 2
  <2>1. SavedTable(s, Tables[k]) = <<Section(Tables[k])>> \o Entries(s.apps)
    BY <1>2, FourTables DEF SavedTable
  <2>2. Texts(s, k) = s.apps
    BY <1>2 DEF Texts
  <2>3. /\ Entries(s.apps) \in Seq({Entry(x) : x \in s.apps})
        /\ \A x \in s.apps : \E j \in 1..Len(Entries(s.apps)) : Entries(s.apps)[j] = Entry(x)
    BY <1>0, EntriesOfSet
  <2> QED BY <2>1, <2>2, <2>3, Zenon
<1>3. CASE k = 3
  <2> DEFINE d == GetBlockedDomains(s)
             e == [i \in DOMAIN d |-> Entry(d[i])]
  <2>1. SavedTable(s, Tables[k]) = <<Section(Tables[k])>> \o e
    BY <1>3, FourTables DEF SavedTable
  <2>2. Texts(s, k) = s.domains \cup Range(s.patterns)
    BY <1>3 DEF Texts
  <2>3. d \in Seq(Texts(s, k)) /\ Range(d) = Texts(s, k)
    <3> DEFINE list == SetToSeq(s.domains)
               T == s.domains \cup Range(s.patterns)
    <3>1. list \in Seq(s.domains) /\ Range(list) = s.domains
      BY <1>0, ListsTheSet
    <3>2. \E P : s.patterns \in Seq(P)
      <4>1. PICK texts : s \in Stores(texts)
        BY DEF IsStore
      <4> QED BY <4>1 DEF Stores
    <3>3. s.patterns \in Seq(Range(s.patterns))
      BY <3>2 DEF Range
    <3> HIDE DEF list
    <3>4. list \in Seq(T) /\ s.patterns \in Seq(T)
      BY <3>1, <3>3
    <3> HIDE DEF T
    <3>5. list \o s.patterns \in Seq(T)
      BY <3>4
    <3>6. Range(list \o s.patterns) = Range(list) \cup Range(s.patterns)
      BY <3>4, RangeConcatenation
    <3>7. d = list \o s.patterns
      BY DEF GetBlockedDomains, list
    <3> QED BY <2>2, <3>1, <3>5, <3>6, <3>7 DEF T
  <2> HIDE DEF d
  <2>4. DOMAIN d = 1..Len(d) /\ Len(d) \in Nat /\ \A i \in 1..Len(d) : d[i] \in Texts(s, k)
    BY <2>3
  <2>5. e \in Seq({Entry(x) : x \in Texts(s, k)}) /\ Len(e) = Len(d) /\ \A i \in 1..Len(d) : e[i] = Entry(d[i])
    BY <2>4
  <2>6. \A x \in Texts(s, k) : \E j \in 1..Len(d) : d[j] = x
    BY <2>3, <2>4 DEF Range
  <2> HIDE DEF e
  <2>7. \A x \in Texts(s, k) : \E j \in 1..Len(e) : e[j] = Entry(x)
    BY <2>5, <2>6
  <2> QED BY <2>1, <2>5, <2>7, Zenon
<1>4. CASE k = 4
  <2>1. SavedTable(s, Tables[k]) = <<Section(Tables[k])>> \o Entries(s.ports)
    BY <1>4, FourTables DEF SavedTable
  <2>2. Texts(s, k) = s.ports
    BY <1>4 DEF Texts
  <2>3. /\ Entries(s.ports) \in Seq({Entry(x) : x \in s.ports})
        /\ \A x \in s.ports : \E j \in 1..Len(Entries(s.ports)) : Entries(s.ports)[j] = Entry(x)
    BY <1>0, EntriesOfSet
  <2> QED BY <2>1, <2>2, <2>3, Zenon
<1> QED BY <1>1, <1>2, <1>3, <1>4, FourTables

-----------------------------------------------------------------------------
(***************************************************************************)
(* What the lines of a file say, and what loadRules makes of them.          *)
(***************************************************************************)

\* Line m of a file is in the k-th table: the last section before it is that one's.
Under(lines, m, k) ==
  \E i \in 1..m : lines[i] = Section(Tables[k]) /\ \A j \in (i + 1)..m : lines[j].kind = "entry"

\* What a line says.
Says(lines, m, r) ==
  lines[m].kind = "entry" /\ \E k \in 1..4 : Under(lines, m, k) /\ r = <<Kinds[k], lines[m].text>>

\* A file that saveRules has written, or is writing.
IsSaved(lines) ==
  /\ \E L : lines \in Seq(L)
  /\ \A m \in 1..Len(lines) :
       \/ \E k \in 1..4 : lines[m] = Section(Tables[k])
       \/ \E k \in 1..4 : \E x : lines[m] = Entry(x) /\ Readable(k, x) /\ Under(lines, m, k)

\* A line is in one table.
LEMMA UnderOne ==
  ASSUME NEW lines, NEW m \in Nat, NEW j \in 1..4, NEW k \in 1..4, Under(lines, m, j), Under(lines, m, k)
  PROVE  j = k
<1>1. PICK a \in 1..m : lines[a] = Section(Tables[j]) /\ \A i \in (a + 1)..m : lines[i].kind = "entry"
  BY DEF Under
<1>2. PICK b \in 1..m : lines[b] = Section(Tables[k]) /\ \A i \in (b + 1)..m : lines[i].kind = "entry"
  BY DEF Under
<1>3. lines[a].kind = "section" /\ lines[b].kind = "section"
  BY <1>1, <1>2 DEF Section
<1>4. a = b
  BY <1>1, <1>2, <1>3
<1>5. lines[a].text = Tables[j] /\ lines[b].text = Tables[k]
  BY <1>1, <1>2 DEF Section
<1> QED BY <1>4, <1>5, FourTables

\* The table of a line depends on the lines up to it.
LEMMA UnderPrefix ==
  ASSUME NEW f, NEW g, NEW m \in Nat, \A i \in 1..m : f[i] = g[i], NEW k
  PROVE  Under(f, m, k) <=> Under(g, m, k)
BY DEF Under

\* A list of entries says some texts, and is put under the section of a table.
Lists(e, X) == (\E L : e \in Seq(L)) /\ \A j \in 1..Len(e) : \E x \in X : e[j] = Entry(x)

\* All of a table is readable.
AreReadable(k, X) == \A x \in X : Readable(k, x)

\* A file with the entries of one more table.
WithTable(f, k, e) == f \o (<<Section(Tables[k])>> \o e)

\* A table at the end of a file leaves what is said before it, and says its rules.
LEMMA TableAppended ==
  ASSUME NEW f, IsSaved(f), NEW k \in 1..4, NEW X, AreReadable(k, X), NEW e, Lists(e, X),
         NEW g, g = WithTable(f, k, e)
  PROVE  /\ IsSaved(g)
         /\ \A m \in 1..Len(f) : \A r : Says(g, m, r) <=> Says(f, m, r)
         /\ \A m \in (Len(f) + 1)..Len(g) : \A r : Says(g, m, r) => \E x \in X : r = <<Kinds[k], x>>
         /\ \A j \in 1..Len(e) : \A x : e[j] = Entry(x) =>
              Len(f) + 1 + j \in 1..Len(g) /\ Says(g, Len(f) + 1 + j, <<Kinds[k], x>>)
         /\ Len(f) \in Nat /\ Len(g) \in Nat /\ Len(f) <= Len(g)
<1>1. PICK L : f \in Seq(L)
  BY DEF IsSaved
<1>0. PICK E : e \in Seq(E)
  BY DEF Lists
<1> DEFINE h == Section(Tables[k])
           A == (L \cup {h}) \cup E
<1>2. \A x : Entry(x).kind = "entry" /\ Entry(x).text = x
  BY DEF Entry
<1>3. h.kind = "section"
  BY DEF Section
<1> HIDE DEF h
<1>4. f \in Seq(A) /\ <<h>> \in Seq(A) /\ e \in Seq(A)
  <2>1. \A S, T : \A s \in Seq(S) : S \subseteq T => s \in Seq(T)
    OBVIOUS
  <2>2. L \subseteq A /\ E \subseteq A /\ h \in A
    OBVIOUS
  <2> HIDE DEF A
  <2> QED BY <1>0, <1>1, <2>1, <2>2
<1>5. /\ \A j \in 1..Len(e) : \E x \in X : e[j] = Entry(x)
      /\ \A x \in X : Readable(k, x)
  BY DEF Lists, AreReadable
<1> HIDE DEF A
<1>6. g \in Seq(A) /\ Len(g) = Len(f) + 1 + Len(e) /\ Len(f) \in Nat /\ Len(e) \in Nat
  BY <1>4 DEF h, WithTable
<1>7. \A i \in 1..Len(f) : g[i] = f[i]
  BY <1>4 DEF h, WithTable
<1>8. g[Len(f) + 1] = h
  BY <1>4 DEF h, WithTable
<1>9. \A j \in 1..Len(e) : g[Len(f) + 1 + j] = e[j]
  BY <1>4 DEF h, WithTable
<1>10. \A i \in (Len(f) + 2)..Len(g) : \E j \in 1..Len(e) : i = Len(f) + 1 + j
  <2>1. ASSUME NEW i \in (Len(f) + 2)..Len(g) PROVE i - (Len(f) + 1) \in 1..Len(e) /\ i = Len(f) + 1 + (i - (Len(f) + 1))
    BY <1>6
  <2> QED BY <2>1
<1>11. \A i \in (Len(f) + 2)..Len(g) : g[i].kind = "entry" /\ \E x \in X : g[i] = Entry(x)
  <2> SUFFICES ASSUME NEW i \in (Len(f) + 2)..Len(g)
               PROVE  g[i].kind = "entry" /\ \E x \in X : g[i] = Entry(x)
    OBVIOUS
  <2>1. PICK j \in 1..Len(e) : i = Len(f) + 1 + j
    BY <1>10
  <2>2. PICK x \in X : e[j] = Entry(x)
    BY <1>5
  <2>3. g[i] = Entry(x)
    BY <1>9, <2>1, <2>2
  <2> QED BY <1>2, <2>3
<1>12. \A m \in 1..Len(f) : \A j : Under(g, m, j) <=> Under(f, m, j)
  <2> SUFFICES ASSUME NEW m \in 1..Len(f), NEW j PROVE Under(g, m, j) <=> Under(f, m, j)
    OBVIOUS
  <2>1. m \in Nat /\ \A i \in 1..m : g[i] = f[i]
    BY <1>6, <1>7
  <2> QED BY <2>1, UnderPrefix
<1>13. \A m \in (Len(f) + 1)..Len(g) : Under(g, m, k)
  <2> SUFFICES ASSUME NEW m \in (Len(f) + 1)..Len(g) PROVE Under(g, m, k)
    OBVIOUS
  <2>1. Len(f) + 1 \in 1..m /\ g[Len(f) + 1] = Section(Tables[k])
    BY <1>6, <1>8 DEF h
  <2>2. \A j \in ((Len(f) + 1) + 1)..m : g[j].kind = "entry"
    BY <1>6, <1>11
  <2> QED BY <2>1, <2>2 DEF Under
<1>14. IsSaved(g)
  <2>1. ASSUME NEW m \in 1..Len(g)
        PROVE  \/ \E j \in 1..4 : g[m] = Section(Tables[j])
               \/ \E j \in 1..4 : \E x : g[m] = Entry(x) /\ Readable(j, x) /\ Under(g, m, j)
    <3>1. CASE m \in 1..Len(f)
      <4>1. \/ \E j \in 1..4 : f[m] = Section(Tables[j])
            \/ \E j \in 1..4 : \E x : f[m] = Entry(x) /\ Readable(j, x) /\ Under(f, m, j)
        BY <3>1 DEF IsSaved
      <4>2. g[m] = f[m] /\ \A j : Under(g, m, j) <=> Under(f, m, j)
        BY <1>7, <1>12, <3>1
      <4> QED BY <4>1, <4>2, Zenon
    <3>2. CASE m = Len(f) + 1
      BY <1>8, <3>2 DEF h
    <3>3. CASE m \in (Len(f) + 2)..Len(g)
      <4>1. Under(g, m, k)
        BY <1>6, <1>13, <3>3
      <4> QED BY <1>5, <1>11, <3>3, <4>1
    <3>4. m \in 1..Len(f) \/ m = Len(f) + 1 \/ m \in (Len(f) + 2)..Len(g)
      BY <1>6
    <3> QED BY <3>1, <3>2, <3>3, <3>4, Zenon
  <2> QED BY <1>6, <2>1 DEF IsSaved
<1>15. \A m \in 1..Len(f) : \A r : Says(g, m, r) <=> Says(f, m, r)
  BY <1>7, <1>12 DEF Says
<1>16. ASSUME NEW m \in (Len(f) + 1)..Len(g), NEW r, Says(g, m, r)
       PROVE  \E x \in X : r = <<Kinds[k], x>>
  <2>1. PICK j \in 1..4 : Under(g, m, j) /\ r = <<Kinds[j], g[m].text>>
    BY <1>16 DEF Says
  <2>2. j = k
    BY <1>6, <1>13, <2>1, UnderOne
  <2>3. g[m].kind = "entry"
    BY <1>16 DEF Says
  <2>4. m # Len(f) + 1
    BY <1>3, <1>8, <2>3
  <2>5. m \in (Len(f) + 2)..Len(g)
    BY <1>6, <2>4
  <2>6. PICK x \in X : g[m] = Entry(x)
    BY <1>11, <2>5
  <2> QED BY <1>2, <2>1, <2>2, <2>6
<1>17. ASSUME NEW j \in 1..Len(e), NEW x, e[j] = Entry(x)
       PROVE  Len(f) + 1 + j \in 1..Len(g) /\ Says(g, Len(f) + 1 + j, <<Kinds[k], x>>)
  <2>1. Len(f) + 1 + j \in (Len(f) + 1)..Len(g) /\ Len(f) + 1 + j \in 1..Len(g)
    BY <1>6
  <2>2. g[Len(f) + 1 + j] = Entry(x)
    BY <1>9, <1>17
  <2>3. Under(g, Len(f) + 1 + j, k)
    BY <1>13, <2>1
  <2> QED BY <1>2, <2>1, <2>2, <2>3 DEF Says
<1> QED BY <1>6, <1>14, <1>15, <1>16, <1>17

\* loadRules at some line: a store, a section and whether it has thrown.
IsLoad(load) ==
  /\ \E S, T : load \in [store : S, section : T, threw : BOOLEAN]
  /\ IsStore(load.store)

\* What a line makes of it, whatever the file.
LEMMA LineRead ==
  ASSUME NEW load, IsLoad(load), NEW line
  PROVE  /\ IsLoad(OnLine(load, line))
         /\ line.kind = "section" => /\ OnLine(load, line).store = load.store
                                     /\ OnLine(load, line).section = line.text
                                     /\ OnLine(load, line).threw = load.threw
         /\ \A k \in 1..4 :
              line.kind = "entry" /\ load.section = Tables[k] /\ Readable(k, line.text) =>
                /\ RulesIn(OnLine(load, line).store) = RulesIn(load.store) \cup {<<Kinds[k], line.text>>}
                /\ OnLine(load, line).section = load.section
                /\ OnLine(load, line).threw = load.threw
<1> DEFINE new == OnLine(load, line)
           text == line.text
<1>1. PICK S, T : load \in [store : S, section : T, threw : BOOLEAN]
  BY DEF IsLoad
<1>2. IsStore(load.store)
  BY DEF IsLoad
<1>3. Kinds[1] = "IP" /\ Kinds[2] = "APP" /\ Kinds[3] = "DOMAIN" /\ Kinds[4] = "PORT"
  BY DEF Kinds
<1>4. ASSUME NEW other, IsStore(other), NEW n, n = [load EXCEPT !.store = other]
      PROVE  IsLoad(n) /\ n.store = other /\ n.section = load.section /\ n.threw = load.threw
  <2>1. n \in [store : {other}, section : T, threw : BOOLEAN]
    BY <1>1, <1>4
  <2>2. n.store = other /\ n.section = load.section /\ n.threw = load.threw
    BY <1>1, <1>4
  <2> QED BY <1>4, <2>1, <2>2 DEF IsLoad
<1>5. ASSUME line.kind = "section"
      PROVE  IsLoad(new) /\ new.store = load.store /\ new.section = text /\ new.threw = load.threw
  <2>1. new = [load EXCEPT !.section = text]
    BY <1>5 DEF OnLine
  <2> HIDE DEF new
  <2>2. new \in [store : S, section : {text}, threw : BOOLEAN]
    BY <1>1, <2>1
  <2>3. new.store = load.store /\ new.section = text /\ new.threw = load.threw
    BY <1>1, <2>1
  <2> QED BY <1>2, <2>2, <2>3 DEF IsLoad
<1>6. ASSUME line.kind = "entry", load.section = "[BLOCKED_IPS]"
      PROVE  /\ IsLoad(new) /\ new.section = load.section /\ new.threw = load.threw
             /\ Readable(1, text) => RulesIn(new.store) = RulesIn(load.store) \cup {<<"IP", text>>}
  <2>1. new = [load EXCEPT !.store = BlockIP(load.store, text)]
    BY <1>6 DEF OnLine
  <2>2. /\ IsStore(BlockIP(load.store, text))
        /\ RulesIn(BlockIP(load.store, text)) = RulesIn(load.store) \cup {<<"IP", ParseIP(text)>>}
    BY <1>2, IPAdds
  <2>3. Readable(1, text) => ParseIP(text) = text
    BY AddressReadsBack DEF Readable
  <2> HIDE DEF new
  <2> QED BY <1>4, <2>1, <2>2, <2>3
<1>7. ASSUME line.kind = "entry", load.section = "[BLOCKED_APPS]"
      PROVE  /\ IsLoad(new) /\ new.section = load.section /\ new.threw = load.threw
             /\ Readable(2, text) => RulesIn(new.store) = RulesIn(load.store) \cup {<<"APP", text>>}
  <2>1. new = [load EXCEPT !.store = BlockApp(load.store, text)]
    BY <1>7 DEF OnLine
  <2>2. /\ IsStore(BlockApp(load.store, text))
        /\ RulesIn(BlockApp(load.store, text)) =
             RulesIn(load.store) \cup {<<"APP", app>> : app \in {text} \cap AppNames}
    BY <1>2, AppAdds
  <2>3. Readable(2, text) => {<<"APP", app>> : app \in {text} \cap AppNames} = {<<"APP", text>>}
    BY DEF Readable
  <2> HIDE DEF new
  <2> QED BY <1>4, <2>1, <2>2, <2>3
<1>8. ASSUME line.kind = "entry", load.section = "[BLOCKED_DOMAINS]"
      PROVE  /\ IsLoad(new) /\ new.section = load.section /\ new.threw = load.threw
             /\ RulesIn(new.store) = RulesIn(load.store) \cup {<<"DOMAIN", text>>}
  <2>1. new = [load EXCEPT !.store = BlockDomain(load.store, text)]
    BY <1>8 DEF OnLine
  <2>2. /\ IsStore(BlockDomain(load.store, text))
        /\ RulesIn(BlockDomain(load.store, text)) = RulesIn(load.store) \cup {<<"DOMAIN", text>>}
    BY <1>2, DomainAdds
  <2> HIDE DEF new
  <2> QED BY <1>4, <2>1, <2>2
<1>9. ASSUME line.kind = "entry", load.section = "[BLOCKED_PORTS]"
      PROVE  /\ IsLoad(new)
             /\ Readable(4, text) => /\ new.section = load.section /\ new.threw = load.threw
                                     /\ RulesIn(new.store) = RulesIn(load.store) \cup {<<"PORT", text>>}
  <2>1. CASE text \in Int
    <3>1. new = [load EXCEPT !.store = BlockPort(load.store, text)]
      BY <1>9, <2>1 DEF OnLine
    <3>2. /\ IsStore(BlockPort(load.store, text))
          /\ RulesIn(BlockPort(load.store, text)) = RulesIn(load.store) \cup {<<"PORT", text % 65536>>}
      BY <1>2, <2>1, PortAdds
    <3>3. Readable(4, text) => text % 65536 = text
      BY DEF Readable, Ports
    <3> HIDE DEF new
    <3> QED BY <1>4, <3>1, <3>2, <3>3
  <2>2. CASE text \notin Int
    <3>1. new = [load EXCEPT !.threw = TRUE]
      BY <1>9, <2>2 DEF OnLine
    <3>2. ~Readable(4, text)
      BY <2>2 DEF Readable, Ports
    <3> HIDE DEF new
    <3>3. new \in [store : S, section : T, threw : BOOLEAN] /\ new.store = load.store
      BY <1>1, <3>1
    <3> QED BY <1>2, <3>2, <3>3 DEF IsLoad
  <2> QED BY <2>1, <2>2
<1>10. ASSUME line.kind # "section",
              line.kind = "entry" => load.section \notin {"[BLOCKED_IPS]", "[BLOCKED_APPS]",
                                                          "[BLOCKED_DOMAINS]", "[BLOCKED_PORTS]"}
       PROVE  IsLoad(new)
  <2>1. new = load
    BY <1>10 DEF OnLine
  <2> QED BY <2>1
<1> HIDE DEF new
<1>11. IsLoad(new)
  BY <1>5, <1>6, <1>7, <1>8, <1>9, <1>10
<1>12. ASSUME NEW k \in 1..4, line.kind = "entry", load.section = Tables[k], Readable(k, text)
       PROVE  /\ RulesIn(new.store) = RulesIn(load.store) \cup {<<Kinds[k], text>>}
              /\ new.section = load.section /\ new.threw = load.threw
  BY <1>3, <1>6, <1>7, <1>8, <1>9, <1>12, FourTables
<1> QED BY <1>5, <1>11, <1>12 DEF new

\* loadRules after n lines of a saved file: it has the rules those say, and is in the
\* section of the last.
Reading(lines, n, load) ==
  /\ IsLoad(load) /\ load.threw = FALSE
  /\ \A r : r \in RulesIn(load.store) <=> \E m \in 1..n : Says(lines, m, r)
  /\ n = 0 \/ \E k \in 1..4 : Under(lines, n, k) /\ load.section = Tables[k]

\* Of a saved file, every line is read as what it says.
LEMMA SavedLineRead ==
  ASSUME NEW lines, IsSaved(lines), NEW n \in Nat, n < Len(lines), NEW load, Reading(lines, n, load)
  PROVE  Reading(lines, n + 1, OnLine(load, lines[n + 1]))
<1> DEFINE line == lines[n + 1]
           new == OnLine(load, line)
<1>1. IsLoad(load) /\ load.threw = FALSE
  BY DEF Reading
<1>2. /\ IsLoad(new)
      /\ line.kind = "section" => new.store = load.store /\ new.section = line.text /\ new.threw = load.threw
      /\ \A k \in 1..4 :
           line.kind = "entry" /\ load.section = Tables[k] /\ Readable(k, line.text) =>
             /\ RulesIn(new.store) = RulesIn(load.store) \cup {<<Kinds[k], line.text>>}
             /\ new.section = load.section /\ new.threw = load.threw
  BY <1>1, LineRead, Zenon
<1> HIDE DEF new
<1>3. \A r : r \in RulesIn(load.store) <=> \E m \in 1..n : Says(lines, m, r)
  BY DEF Reading
<1>4. n + 1 \in 1..Len(lines) /\ Len(lines) \in Nat
  BY DEF IsSaved
<1>5. \A r : (\E m \in 1..(n + 1) : Says(lines, m, r)) <=> (\E m \in 1..n : Says(lines, m, r)) \/ Says(lines, n + 1, r)
  <2>1. \A m : m \in 1..(n + 1) <=> m \in 1..n \/ m = n + 1
    OBVIOUS
  <2> QED BY <2>1
<1>6. CASE \E k \in 1..4 : line = Section(Tables[k])
  <2>1. PICK k \in 1..4 : line = Section(Tables[k])
    BY <1>6
  <2>2. line.kind = "section" /\ line.text = Tables[k]
    BY <2>1 DEF Section
  <2>3. Under(lines, n + 1, k)
    <3>1. n + 1 \in 1..(n + 1) /\ \A j \in ((n + 1) + 1)..(n + 1) : lines[j].kind = "entry"
      OBVIOUS
    <3> QED BY <2>1, <3>1 DEF Under
  <2>4. \A r : ~Says(lines, n + 1, r)
    BY <2>2 DEF Says
  <2>5. new.store = load.store /\ new.section = Tables[k] /\ new.threw = FALSE
    BY <1>1, <1>2, <2>2
  <2>6. \A r : r \in RulesIn(new.store) <=> \E m \in 1..(n + 1) : Says(lines, m, r)
    BY <1>3, <1>5, <2>4, <2>5
  <2> QED BY <1>2, <2>3, <2>5, <2>6 DEF Reading, new
<1>7. CASE \E k \in 1..4 : \E x : line = Entry(x) /\ Readable(k, x) /\ Under(lines, n + 1, k)
  <2>0. PICK k \in 1..4 : \E x : line = Entry(x) /\ Readable(k, x) /\ Under(lines, n + 1, k)
    BY <1>7
  <2>1. PICK x : line = Entry(x) /\ Readable(k, x) /\ Under(lines, n + 1, k)
    BY <2>0
  <2>2. line.kind = "entry" /\ line.text = x
    BY <2>1 DEF Entry
  <2>3. PICK i \in 1..(n + 1) : /\ lines[i] = Section(Tables[k])
                                /\ \A j \in (i + 1)..(n + 1) : lines[j].kind = "entry"
    BY <2>1 DEF Under
  <2>4. i # n + 1
    <3>1. lines[i].kind = "section"
      BY <2>3 DEF Section
    <3> QED BY <2>2, <3>1
  <2>5. i \in 1..n /\ n # 0
    BY <2>4
  <2>6. Under(lines, n, k)
    BY <2>3, <2>5 DEF Under
  <2>7. load.section = Tables[k]
    <3>1. PICK j \in 1..4 : Under(lines, n, j) /\ load.section = Tables[j]
      BY <2>5 DEF Reading
    <3>2. j = k
      BY <2>6, <3>1, UnderOne
    <3> QED BY <3>1, <3>2
  <2>8. /\ RulesIn(new.store) = RulesIn(load.store) \cup {<<Kinds[k], x>>}
        /\ new.section = Tables[k] /\ new.threw = FALSE
    BY <1>1, <1>2, <2>1, <2>2, <2>7
  <2>9. \A r : Says(lines, n + 1, r) <=> r = <<Kinds[k], x>>
    <3>1. \A j \in 1..4 : Under(lines, n + 1, j) <=> j = k
      BY <2>1, UnderOne
    <3> QED BY <2>2, <3>1 DEF Says
  <2>10. \A r : r \in RulesIn(new.store) <=> \E m \in 1..(n + 1) : Says(lines, m, r)
    BY <1>3, <1>5, <2>8, <2>9
  <2> QED BY <1>2, <2>1, <2>8, <2>10 DEF Reading, new
<1> QED BY <1>4, <1>6, <1>7 DEF IsSaved

-----------------------------------------------------------------------------
(***************************************************************************)
(* What main() reads of the words of its command line.                      *)
(***************************************************************************)

\* What is read of the options.
Blocks == [option : BlockOptions, value : STRING]

\* What OnWord has made of some words.
IsConfig(c) ==
  c \in [exit : {"none", "usage", "exit1"}, option : ValueOptions \cup {""}, rules : BOOLEAN,
         blocks : Seq(Blocks)]

\* Where a rule and where the file of rules is given, among the first n words.
Sets(args, i, block) ==
  IsOption(args)[i] /\ args[i] \in BlockOptions /\ block = [option |-> args[i], value |-> args[i + 1]]

NamesFileBy(args, n) ==
  \E i \in 3..n : /\ IsOption(args)[i] /\ args[i] = "--rules" /\ args[i + 1] # ""
                  /\ \A j \in 3..n : IsOption(args)[j] /\ args[j] = "--rules" => j <= i

\* The word an option waits with after n words.
Pending(args, n) == n >= 3 /\ IsOption(args)[n] /\ args[n] \in ValueOptions

\* What main() knows when it has read n words and none was wrong: each option that has
\* its value is taken, an option at the end waits.
WordsTaken(args, n, c) ==
  /\ IsConfig(c) /\ c.exit = "none"
  /\ Pending(args, n) => c.option = args[n]
  /\ ~Pending(args, n) => c.option = ""
  /\ \A j \in 1..Len(c.blocks) : \E i \in 3..(n - 1) : Sets(args, i, c.blocks[j])
  /\ \A i \in 3..(n - 1) : \A b : Sets(args, i, b) => \E j \in 1..Len(c.blocks) : b = c.blocks[j]
  /\ c.rules <=> NamesFileBy(args, n - 1)

\* Nothing is known before the third.
LEMMA NoWordTaken ==
  ASSUME NEW args
  PROVE  IsConfig(NoConfig) /\ WordsTaken(args, 2, NoConfig)
<1>1. IsConfig(NoConfig) /\ NoConfig.exit = "none" /\ NoConfig.option = "" /\ NoConfig.rules = FALSE
      /\ NoConfig.blocks = <<>>
  BY DEF IsConfig, NoConfig
<1>2. ~Pending(args, 2) /\ ~NamesFileBy(args, 2 - 1)
  BY DEF Pending, NamesFileBy
<1>3. 3..(2 - 1) = {} /\ Len(<<>>) = 0 /\ 1..0 = {}
  OBVIOUS
<1> QED BY <1>1, <1>2, <1>3 DEF WordsTaken

\* What kinds of words there are.
LEMMA OptionKinds ==
  /\ "" \notin ValueOptions /\ BlockOptions \subseteq ValueOptions /\ "--rules" \in ValueOptions
  /\ "--rules" \notin BlockOptions 
  /\ BlockOptions = {"--block-ip", "--block-app", "--block-domain"}
BY DEF ValueOptions, BlockOptions, CountOptions

\* The next word keeps it so.
LEMMA WordTaken ==
  ASSUME NEW args \in Seq(STRING), NEW n \in Nat, n >= 2, n < Len(args), NEW c, WordsTaken(args, n, c)
  PROVE  /\ IsConfig(OnWord(c, args[n + 1]))
         /\ OnWord(c, args[n + 1]).exit = "none" => WordsTaken(args, n + 1, OnWord(c, args[n + 1]))
<1> DEFINE word == args[n + 1]
           new == OnWord(c, word)
<1>1. IsConfig(c) /\ c.exit = "none"
  BY DEF WordsTaken
<1>2. c.blocks \in Seq(Blocks) /\ c.rules \in BOOLEAN
  BY <1>1 DEF IsConfig
<1>3. word \in STRING /\ Len(args) \in Nat /\ n + 1 \in 3..Len(args)
  OBVIOUS
<1>4. IsOption(args)[n + 1] <=> ~Pending(args, n)
  <2>1. IsOption(args)[n + 1] <=> n + 1 = 3 \/ ~(IsOption(args)[(n + 1) - 1] /\ args[(n + 1) - 1] \in ValueOptions)
    BY <1>3, OptionsUnfold
  <2>2. (n + 1) - 1 = n /\ (n + 1 = 3 <=> ~(n >= 3))
    OBVIOUS
  <2> QED BY <2>1, <2>2 DEF Pending
<1>5. \A e \in {"usage", "exit1"} : IsConfig(ExitWith(e)) /\ ExitWith(e).exit # "none"
  <2>1. IsConfig(NoConfig)
    BY NoWordTaken
  <2> QED BY <2>1 DEF IsConfig, ExitWith
<1>6. \A i : i \in 3..((n + 1) - 1) <=> i \in 3..(n - 1) \/ (n >= 3 /\ i = n)
  OBVIOUS
<1>7. /\ \A j \in 1..Len(c.blocks) : \E i \in 3..(n - 1) : Sets(args, i, c.blocks[j])
      /\ \A i \in 3..(n - 1) : \A b : Sets(args, i, b) => \E j \in 1..Len(c.blocks) : b = c.blocks[j]
      /\ c.rules <=> NamesFileBy(args, n - 1)
  BY DEF WordsTaken
<1> HIDE DEF word
\* The word that waited gets its value.
<1>8. CASE Pending(args, n)
  <2>1. n >= 3 /\ IsOption(args)[n] /\ args[n] \in ValueOptions
    BY <1>8 DEF Pending
  <2>2. c.option = args[n] /\ c.option # ""
    BY <1>8, <2>1, OptionKinds DEF WordsTaken
  <2>3. new = TakeValue(c, word)
    BY <1>1, <2>2 DEF OnWord
  <2>4. ~Pending(args, n + 1)
    BY <1>4, <1>8 DEF Pending
  <2> HIDE DEF new, word
  <2>5. CASE args[n] \in BlockOptions
    <3> DEFINE block == [option |-> args[n], value |-> word]
    <3>1. new = [[c EXCEPT !.option = ""] EXCEPT !.blocks = Append(c.blocks, block)]
      BY <1>1, <2>2, <2>3, <2>5 DEF TakeValue, IsConfig
    <3>2. block \in Blocks /\ Sets(args, n, block)
      BY <1>3, <2>1, <2>5 DEF Blocks, Sets, word
    <3>3. \A b : Sets(args, n, b) => b = block
      BY DEF Sets, word
    <3> HIDE DEF block
    <3>4. Append(c.blocks, block) \in Seq(Blocks)
      BY <1>2, <3>2
    <3>5. /\ IsConfig(new) /\ new.exit = "none" /\ new.option = "" /\ new.rules = c.rules
          /\ new.blocks = Append(c.blocks, block)
      BY <1>1, <3>1, <3>4 DEF IsConfig
    <3>6. /\ Len(new.blocks) = Len(c.blocks) + 1 /\ Len(c.blocks) \in Nat
          /\ new.blocks[Len(c.blocks) + 1] = block
          /\ \A j \in 1..Len(c.blocks) : new.blocks[j] = c.blocks[j]
      <4> DEFINE s == c.blocks
      <4>1. s \in Seq(Blocks) /\ new.blocks = Append(s, block)
        BY <1>2, <3>5
      <4> HIDE DEF s
      <4>2. /\ Len(Append(s, block)) = Len(s) + 1 /\ Len(s) \in Nat /\ Append(s, block)[Len(s) + 1] = block
            /\ \A j \in 1..Len(s) : Append(s, block)[j] = s[j]
        BY <3>2, <4>1
      <4> QED BY <4>1, <4>2 DEF s
    <3>7. \A j \in 1..Len(new.blocks) : \E i \in 3..((n + 1) - 1) : Sets(args, i, new.blocks[j])
      <4> SUFFICES ASSUME NEW j \in 1..Len(new.blocks)
                   PROVE  \E i \in 3..((n + 1) - 1) : Sets(args, i, new.blocks[j])
        OBVIOUS
      <4>1. CASE j \in 1..Len(c.blocks)
        BY <1>6, <1>7, <3>6, <4>1
      <4>2. CASE j = Len(c.blocks) + 1
        BY <1>6, <2>1, <3>2, <3>6, <4>2
      <4> QED BY <3>6, <4>1, <4>2
    <3>8. \A i \in 3..((n + 1) - 1) : \A b : Sets(args, i, b) => \E j \in 1..Len(new.blocks) : b = new.blocks[j]
      <4> SUFFICES ASSUME NEW i \in 3..((n + 1) - 1), NEW b, Sets(args, i, b)
                   PROVE  \E j \in 1..Len(new.blocks) : b = new.blocks[j]
        OBVIOUS
      <4>1. CASE i \in 3..(n - 1)
        <5>1. PICK j \in 1..Len(c.blocks) : b = c.blocks[j]
          BY <1>7, <4>1
        <5>2. j \in 1..Len(new.blocks) /\ new.blocks[j] = b
          BY <3>6, <5>1
        <5> QED BY <5>2
      <4>2. CASE i = n
        <5>1. b = block
          BY <3>3, <4>2
        <5>2. Len(c.blocks) + 1 \in 1..Len(new.blocks)
          BY <3>6
        <5> QED BY <3>6, <5>1, <5>2
      <4> QED BY <1>6, <4>1, <4>2
    <3>9. NamesFileBy(args, (n + 1) - 1) <=> NamesFileBy(args, n - 1)
      <4>1. args[n] # "--rules"
        BY <2>5, OptionKinds
      <4> QED BY <1>6, <4>1 DEF NamesFileBy
    <3> QED BY <1>7, <2>4, <3>5, <3>7, <3>8, <3>9 DEF WordsTaken, new, word
  <2>6. CASE args[n] \notin BlockOptions
    <3>1. \A b : ~Sets(args, n, b)
      BY <2>6 DEF Sets
    <3>2. ASSUME IsConfig(new), new.exit = "none", new.option = "", new.blocks = c.blocks,
                 new.rules <=> NamesFileBy(args, (n + 1) - 1)
          PROVE  WordsTaken(args, n + 1, new)
      <4>1. \A j \in 1..Len(new.blocks) : \E i \in 3..((n + 1) - 1) : Sets(args, i, new.blocks[j])
        BY <1>6, <1>7, <3>2
      <4>2. \A i \in 3..((n + 1) - 1) : \A b : Sets(args, i, b) => \E j \in 1..Len(new.blocks) : b = new.blocks[j]
        <5> SUFFICES ASSUME NEW i \in 3..((n + 1) - 1), NEW b, Sets(args, i, b)
                     PROVE  \E j \in 1..Len(new.blocks) : b = new.blocks[j]
          OBVIOUS
        <5>1. i \in 3..(n - 1)
          BY <1>6, <3>1
        <5>2. PICK j \in 1..Len(c.blocks) : b = c.blocks[j]
          BY <1>7, <5>1
        <5> QED BY <3>2, <5>2
      <4> QED BY <2>4, <3>2, <4>1, <4>2 DEF WordsTaken
    <3>3. CASE args[n] = "--rules"
      <4>1. new = [[c EXCEPT !.option = ""] EXCEPT !.rules = (word # "")]
        BY <2>2, <2>3, <2>6, <3>3 DEF TakeValue
      <4>2. /\ IsConfig(new) /\ new.exit = "none" /\ new.option = "" /\ new.blocks = c.blocks
            /\ new.rules <=> word # ""
        BY <1>1, <4>1 DEF IsConfig
      <4>3. NamesFileBy(args, (n + 1) - 1) <=> word # ""
        <5>1. \A i, j : i \in 3..((n + 1) - 1) /\ j \in 3..((n + 1) - 1) => (n <= i => i = n) /\ j <= n
          OBVIOUS
        <5>2. n \in 3..((n + 1) - 1)
          BY <2>1
        <5> QED BY <2>1, <3>3, <5>1, <5>2 DEF NamesFileBy, word
      <4> QED BY <3>2, <4>2, <4>3 DEF new, word
    <3>4. CASE args[n] # "--rules"
      <4>1. NamesFileBy(args, (n + 1) - 1) <=> NamesFileBy(args, n - 1)
        BY <1>6, <3>4 DEF NamesFileBy
      <4>2. new = [c EXCEPT !.option = ""] \/ new = ExitWith("exit1")
        BY <2>2, <2>3, <2>6, <3>4 DEF TakeValue
      <4>3. CASE new = ExitWith("exit1")
        BY <1>5, <4>3 DEF new, word
      <4>4. CASE new = [c EXCEPT !.option = ""]
        <5>1. /\ IsConfig(new) /\ new.exit = "none" /\ new.option = "" /\ new.blocks = c.blocks
              /\ new.rules = c.rules
          BY <1>1, <4>4 DEF IsConfig
        <5> QED BY <1>7, <3>2, <4>1, <5>1 DEF new, word
      <4> QED BY <4>2, <4>3, <4>4
    <3> QED BY <3>3, <3>4
  <2> QED BY <2>5, <2>6
\* No word waited: this one is an option.
<1>9. CASE ~Pending(args, n)
  <2>1. c.option = ""
    BY <1>9 DEF WordsTaken
  <2>2. \A b : n >= 3 => ~Sets(args, n, b)
    BY <1>9, OptionKinds DEF Sets, Pending
  <2>3. n >= 3 => ~(IsOption(args)[n] /\ args[n] = "--rules")
    BY <1>9, OptionKinds DEF Pending
  <2>4. NamesFileBy(args, (n + 1) - 1) <=> NamesFileBy(args, n - 1)
    BY <1>6, <2>3 DEF NamesFileBy
  <2>5. Pending(args, n + 1) <=> word \in ValueOptions
    BY <1>4, <1>9 DEF Pending, word
  <2> HIDE DEF new, word
  <2>6. ASSUME IsConfig(new), new.exit = "none", new.blocks = c.blocks, new.rules = c.rules,
               word \in ValueOptions => new.option = word, word \notin ValueOptions => new.option = ""
        PROVE  WordsTaken(args, n + 1, new)
    <3>1. \A j \in 1..Len(new.blocks) : \E i \in 3..((n + 1) - 1) : Sets(args, i, new.blocks[j])
      BY <1>6, <1>7, <2>6
    <3>2. \A i \in 3..((n + 1) - 1) : \A b : Sets(args, i, b) => \E j \in 1..Len(new.blocks) : b = new.blocks[j]
      <4> SUFFICES ASSUME NEW i \in 3..((n + 1) - 1), NEW b, Sets(args, i, b)
                   PROVE  \E j \in 1..Len(new.blocks) : b = new.blocks[j]
        OBVIOUS
      <4>1. i \in 3..(n - 1)
        BY <1>6, <2>2
      <4>2. PICK j \in 1..Len(c.blocks) : b = c.blocks[j]
        BY <1>7, <4>1
      <4> QED BY <2>6, <4>2
    <3> QED BY <1>7, <2>4, <2>5, <2>6, <3>1, <3>2 DEF WordsTaken, word
  <2>7. CASE word \in ValueOptions
    <3>1. new = [c EXCEPT !.option = word]
      BY <1>1, <2>1, <2>7 DEF OnWord, new
    <3>2. IsConfig(new) /\ new.exit = "none" /\ new.blocks = c.blocks /\ new.rules = c.rules /\ new.option = word
      BY <1>1, <1>3, <2>7, <3>1 DEF IsConfig
    <3> QED BY <2>6, <2>7, <3>2 DEF new, word
  <2>8. CASE word \notin ValueOptions /\ word = "--verbose"
    <3>1. new = c
      BY <1>1, <2>1, <2>8 DEF OnWord, new
    <3> QED BY <1>1, <2>1, <2>6, <2>8, <3>1 DEF new, word
  <2>9. CASE word \notin ValueOptions /\ word # "--verbose"
    <3>1. new = ExitWith("usage") \/ new = ExitWith("exit1")
      BY <1>1, <2>1, <2>9 DEF OnWord, new
    <3> QED BY <1>5, <3>1 DEF new, word
  <2> QED BY <2>7, <2>8, <2>9
<1> QED BY <1>8, <1>9

-----------------------------------------------------------------------------
(***************************************************************************)
(* The rules the command line names.                                        *)
(***************************************************************************)

\* The rule an option with its value stands for.
Names(block, r) ==
  IF block.option = "--block-ip" THEN r = <<"IP", ParseIP(Octets[block.value])>>
  ELSE IF block.option = "--block-app" THEN block.value \in AppNames /\ r = <<"APP", block.value>>
  ELSE r = <<"DOMAIN", block.value>>

\* Setting it adds that rule and no other.
LEMMA RuleAdded ==
  ASSUME NEW s, IsStore(s), NEW block
  PROVE  /\ IsStore(BlockRule(s, block))
         /\ \A r : r \in RulesIn(BlockRule(s, block)) <=> r \in RulesIn(s) \/ Names(block, r)
<1>1. CASE block.option = "--block-ip"
  <2>1. BlockRule(s, block) = BlockIP(s, Octets[block.value])
    BY <1>1 DEF BlockRule
  <2> QED BY <1>1, <2>1, IPAdds DEF Names
<1>2. CASE block.option # "--block-ip" /\ block.option = "--block-app"
  <2>1. BlockRule(s, block) = BlockApp(s, block.value)
    BY <1>2 DEF BlockRule
  <2>2. \A r : r \in {<<"APP", app>> : app \in {block.value} \cap AppNames} <=> Names(block, r)
    BY <1>2 DEF Names
  <2> QED BY <2>1, <2>2, AppAdds
<1>3. CASE block.option # "--block-ip" /\ block.option # "--block-app"
  <2>1. BlockRule(s, block) = BlockDomain(s, block.value)
    BY <1>3 DEF BlockRule
  <2> QED BY <1>3, <2>1, DomainAdds DEF Names
<1> QED BY <1>1, <1>2, <1>3

\* The rules of the first n options.
NamedIn(blocks, n, r) == \E j \in 1..n : Names(blocks[j], r)

\* When all words are read, the rules taken are those the command line names, and there
\* is a file of rules when it names one.
LEMMA AllWordsTaken ==
  ASSUME NEW args \in Seq(STRING), Len(args) >= 2, NEW c, WordsTaken(args, Len(args), c)
  PROVE  /\ \A r : r \in NamedBy(args) <=> NamedIn(c.blocks, Len(c.blocks), r)
         /\ c.rules <=> NamesFile(args)
         /\ IsConfig(c)
<1> DEFINE n == Len(args) - 1
           At(i, option) == i \in 3..n /\ IsOption(args)[i] /\ args[i] = option
           Block(i) == [option |-> args[i], value |-> args[i + 1]]
<1>1. \A option, i : i \in Given(args, option) <=> At(i, option)
  BY DEF Given
<1>2. c.rules <=> NamesFile(args)
  <2>1. c.rules <=> NamesFileBy(args, n)
    BY DEF WordsTaken
  <2>2. NamesFile(args) <=> \E i : /\ At(i, "--rules") /\ args[i + 1] # ""
                                   /\ \A j : At(j, "--rules") => j <= i
    <3> HIDE DEF At
    <3> QED BY <1>1 DEF NamesFile
  <2>3. NamesFileBy(args, n) <=> \E i : /\ At(i, "--rules") /\ args[i + 1] # ""
                                        /\ \A j : At(j, "--rules") => j <= i
    BY DEF NamesFileBy
  <2> QED BY <2>1, <2>2, <2>3
<1>3. ASSUME NEW r
      PROVE  NamedIn(c.blocks, Len(c.blocks), r) <=> \E i \in 3..n : \E b : Sets(args, i, b) /\ Names(b, r)
  <2>1. /\ \A j \in 1..Len(c.blocks) : \E i \in 3..n : Sets(args, i, c.blocks[j])
        /\ \A i \in 3..n : \A b : Sets(args, i, b) => \E j \in 1..Len(c.blocks) : b = c.blocks[j]
    BY DEF WordsTaken
  <2> QED BY <2>1 DEF NamedIn
<1>4. ASSUME NEW r
      PROVE  (\E i \in 3..n : \E b : Sets(args, i, b) /\ Names(b, r)) <=>
               \/ \E i : At(i, "--block-ip") /\ r = <<"IP", ParseIP(Octets[args[i + 1]])>>
               \/ \E i : At(i, "--block-app") /\ args[i + 1] \in AppNames /\ r = <<"APP", args[i + 1]>>
               \/ \E i : At(i, "--block-domain") /\ r = <<"DOMAIN", args[i + 1]>>
  <2>1. \A i \in 3..n : \A b : Sets(args, i, b) <=>
          IsOption(args)[i] /\ args[i] \in BlockOptions /\ b = Block(i)
    BY DEF Sets
  <2>2. \A i : Block(i).option = args[i] /\ Block(i).value = args[i + 1]
    OBVIOUS
  <2>3. \A i : Names(Block(i), r) <=>
          IF args[i] = "--block-ip" THEN r = <<"IP", ParseIP(Octets[args[i + 1]])>>
          ELSE IF args[i] = "--block-app" THEN args[i + 1] \in AppNames /\ r = <<"APP", args[i + 1]>>
          ELSE r = <<"DOMAIN", args[i + 1]>>
    BY <2>2 DEF Names
  <2> HIDE DEF Block
  <2>4. (\E i \in 3..n : \E b : Sets(args, i, b) /\ Names(b, r)) <=>
          \E i \in 3..n : IsOption(args)[i] /\ args[i] \in BlockOptions /\ Names(Block(i), r)
    BY <2>1, Zenon
  <2> QED BY <2>3, <2>4, OptionKinds
<1>5. ASSUME NEW r
      PROVE  r \in NamedBy(args) <=>
               \/ \E i : At(i, "--block-ip") /\ r = <<"IP", ParseIP(Octets[args[i + 1]])>>
               \/ \E i : At(i, "--block-app") /\ args[i + 1] \in AppNames /\ r = <<"APP", args[i + 1]>>
               \/ \E i : At(i, "--block-domain") /\ r = <<"DOMAIN", args[i + 1]>>
  <2>1. \A option, w : w \in ValuesOf(args, option) <=> \E i : At(i, option) /\ w = args[i + 1]
    <3> HIDE DEF At
    <3> QED BY <1>1 DEF ValuesOf
  <2> HIDE DEF At
  <2>2. r \in NamedBy(args) <=>
          \/ \E w \in ValuesOf(args, "--block-ip") : r = <<"IP", ParseIP(Octets[w])>>
          \/ \E w \in ValuesOf(args, "--block-app") : w \in AppNames /\ r = <<"APP", w>>
          \/ \E w \in ValuesOf(args, "--block-domain") : r = <<"DOMAIN", w>>
    BY DEF NamedBy
  <2>3. (\E w \in ValuesOf(args, "--block-ip") : r = <<"IP", ParseIP(Octets[w])>>) <=>
          \E i : At(i, "--block-ip") /\ r = <<"IP", ParseIP(Octets[args[i + 1]])>>
    BY <2>1
  <2>4. (\E w \in ValuesOf(args, "--block-app") : w \in AppNames /\ r = <<"APP", w>>) <=>
          \E i : At(i, "--block-app") /\ args[i + 1] \in AppNames /\ r = <<"APP", args[i + 1]>>
    BY <2>1
  <2>5. (\E w \in ValuesOf(args, "--block-domain") : r = <<"DOMAIN", w>>) <=>
          \E i : At(i, "--block-domain") /\ r = <<"DOMAIN", args[i + 1]>>
    BY <2>1
  <2> QED BY <2>2, <2>3, <2>4, <2>5
<1> HIDE DEF At, n
<1>6. \A r : r \in NamedBy(args) <=> NamedIn(c.blocks, Len(c.blocks), r)
  BY <1>3, <1>4, <1>5
<1>7. IsConfig(c)
  BY DEF WordsTaken
<1> QED BY <1>2, <1>6, <1>7

-----------------------------------------------------------------------------
(***************************************************************************)
(* The invariant.                                                           *)
(***************************************************************************)

\* The counters, and what was in force all through the save was so at some time of it.
Counters ==
  /\ clearing \in 0..Len(Tables) /\ saving \in 0..Saved /\ changed \in 0..MaxChanges
  /\ standing \subseteq ever

\* The rules of the first engine.
StoreInv == IsStore(store) /\ IsSmall(store)

\* While tables are written, what stands is among the rules and they are noted.
NotedInv == Saving => standing \subseteq RulesIn(store) /\ RulesIn(store) \subseteq ever

\* The tables that are written say every standing rule of theirs, and nothing is said
\* that was not in force.
FileInv ==
  saving # 0 =>
    /\ IsSaved(file)
    /\ \A m \in 1..Len(file) : \A r : Says(file, m, r) => r \in ever
    /\ \A r \in standing : \E k \in 1..4 : \E x : r = <<Kinds[k], x>>
    /\ \A k \in 1..4 : \A x : k < saving /\ <<Kinds[k], x>> \in standing =>
         \E m \in 1..Len(file) : Says(file, m, <<Kinds[k], x>>)

\* What holds of the first engine and its file.
FirstInv == Counters /\ StoreInv /\ NotedInv /\ FileInv

\* The second engine loads a saved file only when it is complete, and nobody writes it
\* again.
SavedInv == engine.saved => saving = Saved /\ engine.file = file

\* A second engine, with what can be so whatever it has read.
Statuses == {"none", "options", "loading", "setting", "usage", "exit1", "terminated", "ready"}

Engines(A, C, F, L) ==
  [status : Statuses, args : A, words : Nat, config : C, file : F, lines : Nat, load : L, blocks : Nat,
   saved : BOOLEAN]

IsEngine(e) ==
  /\ \E A, C, F, L : e \in Engines(A, C, F, L)
  /\ IsConfig(e.config) /\ IsLoad(e.load)

\* Where main() still goes on, no word was wrong.
WordsInv(e) ==
  e.status \in {"options", "loading", "setting", "ready"} =>
    /\ e.args \in Seq(STRING) /\ 2 <= e.words /\ e.words <= Len(e.args)
    /\ WordsTaken(e.args, e.words, e.config)
    /\ e.status # "options" => e.words = Len(e.args)

\* What it has loaded: nothing before the file is opened; then what the lines it has
\* read say.
LoadInv(e) ==
  /\ e.saved => IsSaved(e.file) /\ e.config.rules
  /\ e.status = "options" => ~e.saved /\ e.lines = 0 /\ e.blocks = 0 /\ e.load = StartLoad(EmptyStore)
  /\ e.status = "loading" => /\ e.blocks = 0 /\ e.config.rules
                             /\ e.saved => e.lines <= Len(e.file) /\ Reading(e.file, e.lines, e.load)

\* What it has set: the rules of the options it has come to, on top of those.
RulesInv(e) ==
  e.status \in {"setting", "ready"} =>
    /\ e.status = "ready" => e.blocks = Len(e.config.blocks)
    /\ e.saved => \A r : r \in RulesIn(e.load.store) <=>
                    (\E m \in 1..Len(e.file) : Says(e.file, m, r)) \/ NamedIn(e.config.blocks, e.blocks, r)
    /\ ~e.config.rules => \A r : r \in RulesIn(e.load.store) <=> NamedIn(e.config.blocks, e.blocks, r)

\* What holds of the second engine, and of all.
EngineInv(e) == IsEngine(e) /\ WordsInv(e) /\ LoadInv(e) /\ RulesInv(e)

IInv == FirstInv /\ SavedInv /\ EngineInv(engine)

-----------------------------------------------------------------------------
(***************************************************************************)
(* The first engine.                                                        *)
(***************************************************************************)

\* A table cleared leaves a store.
LEMMA ClearedIsStore ==
  ASSUME NEW s, IsStore(s), IsSmall(s)
  PROVE  /\ IsStore([s EXCEPT !.ips = {}]) /\ IsSmall([s EXCEPT !.ips = {}])
         /\ IsStore([s EXCEPT !.apps = {}]) /\ IsSmall([s EXCEPT !.apps = {}])
         /\ IsStore([s EXCEPT !.domains = {}, !.patterns = <<>>])
         /\ IsSmall([s EXCEPT !.domains = {}, !.patterns = <<>>])
         /\ IsStore([s EXCEPT !.ports = {}]) /\ IsSmall([s EXCEPT !.ports = {}])
<1>1. PICK texts : s \in Stores(texts)
  BY DEF IsStore
<1>2. IsFiniteSet({})
  BY FS_EmptySet
<1>3. [s EXCEPT !.ips = {}] \in Stores(texts) /\ IsSmall([s EXCEPT !.ips = {}])
  BY <1>1, <1>2 DEF Stores, IsSmall
<1>4. [s EXCEPT !.apps = {}] \in Stores(texts) /\ IsSmall([s EXCEPT !.apps = {}])
  BY <1>1, <1>2 DEF Stores, IsSmall
<1>5. /\ [s EXCEPT !.domains = {}, !.patterns = <<>>] \in Stores(texts)
      /\ IsSmall([s EXCEPT !.domains = {}, !.patterns = <<>>])
  <2> DEFINE t == [s EXCEPT !.domains = {}, !.patterns = <<>>]
  <2>1. <<>> \in Seq(Wildcards)
    OBVIOUS
  <2>2. t \in Stores(texts)
    BY <1>1, <2>1 DEF Stores
  <2>3. t.ips = s.ips /\ t.apps = s.apps /\ t.domains = {} /\ t.ports = s.ports
    BY <1>1 DEF Stores
  <2> QED BY <1>2, <2>2, <2>3 DEF IsSmall
<1>6. [s EXCEPT !.ports = {}] \in Stores(texts) /\ IsSmall([s EXCEPT !.ports = {}])
  BY <1>1, <1>2 DEF Stores, IsSmall
<1> QED BY <1>3, <1>4, <1>5, <1>6 DEF IsStore

\* The call of the rule API leaves a store.
LEMMA ChangedIsStore ==
  ASSUME StoreInv, NEW c \in Changes
  PROVE  IsStore(Changed(c)) /\ IsSmall(Changed(c))
<1>1. IsStore(store) /\ IsSmall(store)
  BY DEF StoreInv
<1>2. c.op \in ChangeOps /\ (c.op \in {"blockPort", "unblockPort"} => NumberOf[c.value] \in Int)
  BY ChangesAssumption
<1>3. CASE c.op = "blockIP"
  <2>1. Changed(c) = BlockIP(store, Octets[c.value])
    BY <1>3 DEF Changed
  <2> QED BY <1>1, <2>1, IPAdds
<1>4. CASE c.op = "unblockIP"
  <2>1. Changed(c) = UnblockIP(store, Octets[c.value])
    BY <1>4 DEF Changed
  <2> QED BY <1>1, <2>1, UnblockIsStore
<1>5. CASE c.op = "blockApp"
  <2>1. Changed(c) = BlockApp(store, c.value)
    BY <1>5 DEF Changed
  <2> QED BY <1>1, <2>1, AppAdds
<1>6. CASE c.op = "unblockApp"
  <2>1. Changed(c) = UnblockApp(store, c.value)
    BY <1>6 DEF Changed
  <2> QED BY <1>1, <2>1, UnblockIsStore
<1>7. CASE c.op = "blockDomain"
  <2>1. Changed(c) = BlockDomain(store, c.value)
    BY <1>7 DEF Changed
  <2> QED BY <1>1, <2>1, DomainAdds
<1>8. CASE c.op = "unblockDomain"
  <2>1. Changed(c) = UnblockDomain(store, c.value)
    BY <1>8 DEF Changed
  <2> QED BY <1>1, <2>1, UnblockIsStore
<1>9. CASE c.op = "blockPort"
  <2>1. Changed(c) = BlockPort(store, NumberOf[c.value])
    BY <1>9 DEF Changed
  <2> QED BY <1>1, <1>2, <1>9, <2>1, PortAdds
<1>10. CASE c.op = "unblockPort"
  <2>1. Changed(c) = UnblockPort(store, NumberOf[c.value])
    BY <1>10 DEF Changed
  <2> QED BY <1>1, <2>1, UnblockIsStore
<1> QED BY <1>2, <1>3, <1>4, <1>5, <1>6, <1>7, <1>8, <1>9, <1>10 DEF ChangeOps

\* Rules may change at any time: what is taken away during a save no longer stands, what
\* is added is noted.
LEMMA StoreChanges ==
  ASSUME FirstInv, NEW new, IsStore(new), IsSmall(new), SetStore(new), UNCHANGED <<saving, file>>
  PROVE  StoreInv' /\ NotedInv' /\ FileInv' /\ standing' \subseteq ever'
<1>1. StoreInv'
  BY DEF SetStore, StoreInv
<1>2. standing' \subseteq standing /\ ever \subseteq ever'
  BY DEF SetStore
<1>3. standing' \subseteq ever'
  BY <1>2 DEF FirstInv, Counters
<1>4. NotedInv'
  <2>1. Saving' <=> Saving
    BY DEF Saving
  <2> QED BY <2>1 DEF NotedInv, SetStore, FirstInv
<1>5. FileInv'
  <2> SUFFICES ASSUME saving # 0
               PROVE  /\ IsSaved(file)
                      /\ \A m \in 1..Len(file) : \A r : Says(file, m, r) => r \in ever'
                      /\ \A r \in standing' : \E k \in 1..4 : \E x : r = <<Kinds[k], x>>
                      /\ \A k \in 1..4 : \A x : k < saving /\ <<Kinds[k], x>> \in standing' =>
                           \E m \in 1..Len(file) : Says(file, m, <<Kinds[k], x>>)
    BY DEF FileInv
  <2> QED BY <1>2 DEF FirstInv, FileInv
<1> QED BY <1>1, <1>3, <1>4, <1>5

\* A file that is opened for writing says nothing, and all rules stand.
LEMMA SaveStarts ==
  ASSUME FirstInv, SaveRules
  PROVE  FirstInv'
<1>1. saving' = 1 /\ file' = <<>> /\ standing' = RulesIn(store) /\ ever' = RulesIn(store)
      /\ store' = store /\ clearing' = clearing /\ changed' = changed
  BY DEF SaveRules
<1>2. Counters'
  BY <1>1, FourTables DEF FirstInv, Counters, Saved
<1>3. StoreInv'
  BY <1>1 DEF FirstInv, StoreInv
<1>4. NotedInv'
  BY <1>1 DEF NotedInv
<1>5. IsSaved(<<>>) /\ 1..Len(<<>>) = {}
  <2>1. <<>> \in Seq({}) /\ 1..Len(<<>>) = {}
    OBVIOUS
  <2> QED BY <2>1 DEF IsSaved
<1>6. \A r \in standing' : \E k \in 1..4 : \E x : r = <<Kinds[k], x>>
  BY <1>1, RulesByTable
<1>7. FileInv'
  BY <1>1, <1>5, <1>6 DEF FileInv
<1> QED BY <1>2, <1>3, <1>4, <1>7 DEF FirstInv

\* A table that is written says the rules the store has at that moment: those that have
\* stood among them, and all of them are noted.
LEMMA TableSaved ==
  ASSUME FirstInv, SaveTable
  PROVE  FirstInv'
<1>1. saving \in 1..4 /\ Saving
  BY FourTables DEF SaveTable, Saving
<1> DEFINE k == saving
           X == Texts(store, k)
<1>2. /\ file' = file \o SavedTable(store, Tables[k]) /\ saving' = k + 1 /\ store' = store
      /\ clearing' = clearing /\ changed' = changed /\ standing' = standing /\ ever' = ever
  BY DEF SaveTable
<1>3. IsStore(store) /\ IsSmall(store)
  BY DEF FirstInv, StoreInv
<1>4. standing \subseteq RulesIn(store) /\ RulesIn(store) \subseteq ever
  BY <1>1 DEF FirstInv, NotedInv
<1>5. /\ IsSaved(file)
      /\ \A m \in 1..Len(file) : \A r : Says(file, m, r) => r \in ever
      /\ \A r \in standing : \E j \in 1..4 : \E x : r = <<Kinds[j], x>>
      /\ \A j \in 1..4 : \A x : j < k /\ <<Kinds[j], x>> \in standing =>
           \E m \in 1..Len(file) : Says(file, m, <<Kinds[j], x>>)
  BY <1>1 DEF FirstInv, FileInv
<1>6. PICK e : /\ SavedTable(store, Tables[k]) = <<Section(Tables[k])>> \o e
               /\ e \in Seq({Entry(x) : x \in X})
               /\ \A x \in X : \E j \in 1..Len(e) : e[j] = Entry(x)
  BY <1>1, <1>3, TableWritten
<1>7. \A x \in X : Readable(k, x)
  BY <1>1, <1>3, TextsAreReadable
<1> HIDE DEF X
<1>8. /\ IsSaved(file')
      /\ \A m \in 1..Len(file) : \A r : Says(file', m, r) <=> Says(file, m, r)
      /\ \A m \in (Len(file) + 1)..Len(file') : \A r : Says(file', m, r) => \E x \in X : r = <<Kinds[k], x>>
      /\ \A j \in 1..Len(e) : \A x : e[j] = Entry(x) =>
           Len(file) + 1 + j \in 1..Len(file') /\ Says(file', Len(file) + 1 + j, <<Kinds[k], x>>)
      /\ Len(file) \in Nat /\ Len(file') \in Nat /\ Len(file) <= Len(file')
  <2>1. file' = WithTable(file, k, e) /\ IsSaved(file)
    BY <1>2, <1>5, <1>6 DEF WithTable
  <2>2. Lists(e, X)
    <3> DEFINE L == {Entry(x) : x \in X}
    <3>1. e \in Seq(L)
      BY <1>6
    <3>2. \A l \in L : \E x \in X : l = Entry(x)
      OBVIOUS
    <3> HIDE DEF L
    <3>3. \A j \in 1..Len(e) : e[j] \in L
      BY <3>1
    <3> QED BY <3>1, <3>2, <3>3 DEF Lists
  <2>3. AreReadable(k, X)
    BY <1>7 DEF AreReadable
  <2> QED BY <1>1, <2>1, <2>2, <2>3, TableAppended
<1>9. \A r : r \in RulesIn(store) <=> \E j \in 1..4 : \E x \in Texts(store, j) : r = <<Kinds[j], x>>
  BY RulesByTable
<1>10. \A m \in 1..Len(file') : \A r : Says(file', m, r) => r \in ever
  <2> SUFFICES ASSUME NEW m \in 1..Len(file'), NEW r, Says(file', m, r) PROVE r \in ever
    OBVIOUS
  <2>1. CASE m \in 1..Len(file)
    BY <1>5, <1>8, <2>1
  <2>2. CASE m \in (Len(file) + 1)..Len(file')
    <3>1. PICK x \in X : r = <<Kinds[k], x>>
      BY <1>8, <2>2
    <3>2. r \in RulesIn(store)
      BY <1>1, <1>9, <3>1 DEF X
    <3> QED BY <1>4, <3>2
  <2> QED BY <1>8, <2>1, <2>2
<1>11. ASSUME NEW j \in 1..4, NEW x, j < k + 1, <<Kinds[j], x>> \in standing
       PROVE  \E m \in 1..Len(file') : Says(file', m, <<Kinds[j], x>>)
  <2>1. CASE j < k
    <3>1. PICK m \in 1..Len(file) : Says(file, m, <<Kinds[j], x>>)
      BY <1>5, <1>11, <2>1
    <3>2. m \in 1..Len(file')
      BY <1>8
    <3> QED BY <1>8, <3>1, <3>2
  <2>2. CASE j = k
    <3>1. PICK i \in 1..4 : \E y \in Texts(store, i) : <<Kinds[j], x>> = <<Kinds[i], y>>
      BY <1>4, <1>9, <1>11
    <3>2. \A a, b \in 1..4 : Kinds[a] = Kinds[b] => a = b
      <4>1. Kinds[1] = "IP" /\ Kinds[2] = "APP" /\ Kinds[3] = "DOMAIN" /\ Kinds[4] = "PORT"
        BY DEF Kinds
      <4> QED BY <4>1, FourTables
    <3>3. i = j /\ x \in Texts(store, i)
      BY <3>1, <3>2
    <3>4. PICK l \in 1..Len(e) : e[l] = Entry(x)
      BY <1>6, <2>2, <3>3 DEF X
    <3> QED BY <1>8, <2>2, <3>4
  <2>3. j < k \/ j = k
    BY <1>1, <1>11
  <2> QED BY <2>1, <2>2, <2>3
<1>12. Counters'
  BY <1>1, <1>2, FourTables DEF FirstInv, Counters, Saved
<1>13. StoreInv' /\ NotedInv'
  BY <1>2, <1>3, <1>4 DEF StoreInv, NotedInv
<1>14. FileInv'
  BY <1>2, <1>5, <1>8, <1>10, <1>11 DEF FileInv
<1> QED BY <1>12, <1>13, <1>14 DEF FirstInv

\* Nothing writes a file that is saved.
LEMMA FirstEngineSteps ==
  ASSUME FirstInv, SavedInv, (\E c \in Changes : Change(c)) \/ ClearAll \/ ClearTable \/ SaveRules \/ SaveTable
  PROVE  FirstInv' /\ SavedInv' /\ engine' = engine
<1>1. ASSUME NEW c \in Changes, Change(c)
      PROVE  FirstInv' /\ SavedInv' /\ engine' = engine
  <2>1. /\ SetStore(Changed(c)) /\ changed < MaxChanges /\ changed' = changed + 1
        /\ clearing' = clearing /\ saving' = saving /\ file' = file /\ engine' = engine
    BY <1>1 DEF Change
  <2>2. IsStore(Changed(c)) /\ IsSmall(Changed(c))
    BY ChangedIsStore DEF FirstInv
  <2>3. StoreInv' /\ NotedInv' /\ FileInv' /\ standing' \subseteq ever'
    BY <2>1, <2>2, StoreChanges
  <2>4. Counters'
    BY <2>1, <2>3, ChangesAssumption DEF FirstInv, Counters, Saved
  <2> QED BY <2>1, <2>3, <2>4 DEF FirstInv, SavedInv
<1>2. ASSUME ClearAll PROVE FirstInv' /\ SavedInv' /\ engine' = engine
  <2>1. /\ changed < MaxChanges /\ changed' = changed + 1 /\ clearing' = Len(Tables)
        /\ store' = store /\ saving' = saving /\ file' = file /\ engine' = engine
        /\ standing' = standing /\ ever' = ever
    BY <1>2 DEF ClearAll
  <2>2. Counters'
    BY <2>1, FourTables, ChangesAssumption DEF FirstInv, Counters, Saved
  <2>3. StoreInv' /\ NotedInv' /\ FileInv' /\ SavedInv'
    BY <2>1 DEF FirstInv, StoreInv, NotedInv, Saving, FileInv, SavedInv
  <2> QED BY <2>1, <2>2, <2>3 DEF FirstInv
<1>3. ASSUME ClearTable PROVE FirstInv' /\ SavedInv' /\ engine' = engine
  <2> DEFINE new == CASE clearing = 4 -> [store EXCEPT !.ips = {}]
                      [] clearing = 3 -> [store EXCEPT !.apps = {}]
                      [] clearing = 2 -> [store EXCEPT !.domains = {}, !.patterns = <<>>]
                      [] clearing = 1 -> [store EXCEPT !.ports = {}]
  <2>1. /\ clearing > 0 /\ clearing' = clearing - 1 /\ SetStore(new)
        /\ saving' = saving /\ file' = file /\ engine' = engine /\ changed' = changed
    BY <1>3 DEF ClearTable
  <2>2. clearing \in 1..4
    BY <2>1, FourTables DEF FirstInv, Counters
  <2>3. new \in {[store EXCEPT !.ips = {}], [store EXCEPT !.apps = {}],
                 [store EXCEPT !.domains = {}, !.patterns = <<>>], [store EXCEPT !.ports = {}]}
    BY <2>2, FourTables
  <2> HIDE DEF new
  <2>4. IsStore(new) /\ IsSmall(new)
    <3>1. IsStore(store) /\ IsSmall(store)
      BY DEF FirstInv, StoreInv
    <3> QED BY <2>3, <3>1, ClearedIsStore
  <2>5. StoreInv' /\ NotedInv' /\ FileInv' /\ standing' \subseteq ever'
    BY <2>1, <2>4, StoreChanges
  <2>6. Counters'
    BY <2>1, <2>2, <2>5, FourTables DEF FirstInv, Counters, Saved
  <2> QED BY <2>1, <2>5, <2>6 DEF FirstInv, SavedInv
<1>4. ASSUME SaveRules PROVE FirstInv' /\ SavedInv' /\ engine' = engine
  <2>1. saving = 0 /\ engine' = engine
    BY <1>4 DEF SaveRules
  <2>2. ~engine.saved
    BY <2>1, FourTables DEF SavedInv, Saved
  <2> QED BY <1>4, <2>1, <2>2, SaveStarts DEF SavedInv
<1>5. ASSUME SaveTable PROVE FirstInv' /\ SavedInv' /\ engine' = engine
  <2>1. saving \in 1..4 /\ engine' = engine
    BY <1>5, FourTables DEF SaveTable, Saving
  <2>2. ~engine.saved
    BY <2>1, FourTables DEF SavedInv, Saved
  <2> QED BY <1>5, <2>1, <2>2, TableSaved DEF SavedInv
<1> QED BY <1>1, <1>2, <1>3, <1>4, <1>5

-----------------------------------------------------------------------------
(***************************************************************************)
(* The second engine.                                                       *)
(***************************************************************************)

\* What main() does leaves the first engine alone.
LEMMA FirstKept ==
  ASSUME FirstInv, UNCHANGED <<store, clearing, saving, file, changed, standing, ever>>
  PROVE  FirstInv'
BY DEF FirstInv, Counters, StoreInv, NotedInv, Saving, FileInv

\* Before the first line loadRules has no rules and no section.
LEMMA NothingLoaded ==
  /\ IsLoad(StartLoad(EmptyStore))
  /\ StartLoad(EmptyStore).store = EmptyStore /\ StartLoad(EmptyStore).threw = FALSE
  /\ \A lines : Reading(lines, 0, StartLoad(EmptyStore))
<1> DEFINE none == EmptyStore
           load == StartLoad(none)
<1>1. IsStore(none) /\ RulesIn(none) = {}
  BY EmptyIsStore
<1> HIDE DEF none
<1>2. load \in [store : {none}, section : {""}, threw : BOOLEAN] /\ load.store = none /\ load.threw = FALSE
  BY DEF StartLoad
<1> HIDE DEF load
<1>3. IsLoad(load)
  BY <1>1, <1>2 DEF IsLoad
<1>4. 1..0 = {}
  OBVIOUS
<1>5. \A lines : Reading(lines, 0, load)
  BY <1>1, <1>2, <1>3, <1>4 DEF Reading
<1> QED BY <1>2, <1>3, <1>5 DEF load, none

\* The second engine before it is started.
LEMMA EngineAtFirst == IsEngine(NoEngine) /\ EngineInv(NoEngine) /\ NoEngine.saved = FALSE
<1> DEFINE c == NoConfig
           l == StartLoad(EmptyStore)
<1>1. IsConfig(c) /\ IsLoad(l)
  BY NoWordTaken, NothingLoaded
<1> HIDE DEF c, l
<1>2. NoEngine = [status |-> "none", args |-> <<>>, words |-> 0, config |-> c, file |-> <<>>, lines |-> 0,
                  load |-> l, blocks |-> 0, saved |-> FALSE]
  BY DEF NoEngine, c, l
<1>3. /\ NoEngine \in Engines({<<>>}, {c}, {<<>>}, {l})
      /\ NoEngine.config = c /\ NoEngine.load = l /\ NoEngine.saved = FALSE /\ NoEngine.status = "none"
  BY <1>2 DEF Engines, Statuses
<1>4. IsEngine(NoEngine)
  BY <1>1, <1>3 DEF IsEngine
<1> QED BY <1>3, <1>4 DEF EngineInv, WordsInv, LoadInv, RulesInv

\* An engine that has ended has nothing to keep but its rules.
LEMMA EngineEnds ==
  ASSUME NEW e, IsEngine(e), EngineInv(e), NEW status \in {"usage", "exit1", "terminated"},
         NEW n, n = [e EXCEPT !.status = status]
  PROVE  EngineInv(n) /\ n.saved = e.saved /\ n.file = e.file
<1>1. PICK A, C, F, L : e \in Engines(A, C, F, L)
  BY DEF IsEngine
<1>2. n \in Engines(A, C, F, L)
  BY <1>1 DEF Engines, Statuses
<1>3. n.status = status /\ n.config = e.config /\ n.file = e.file /\ n.load = e.load /\ n.saved = e.saved
  BY <1>1
<1>4. IsEngine(n)
  BY <1>2, <1>3 DEF IsEngine
<1> QED BY <1>3, <1>4 DEF EngineInv, WordsInv, LoadInv, RulesInv

\* Starting it: the words are read from the third on.
LEMMA Started ==
  ASSUME NEW args \in Commands, StartEngine(args)
  PROVE  EngineInv(engine') /\ ~engine'.saved
<1> DEFINE status == IF args # <<>> /\ args[1] \in HelpOptions THEN "usage"
                     ELSE IF Len(args) < 2 THEN "exit1" ELSE "options"
<1>1. engine' = [NoEngine EXCEPT !.args = args, !.words = 2, !.status = status]
  BY DEF StartEngine
<1>2. status \in {"usage", "exit1", "options"} /\ (status = "options" => Len(args) >= 2)
  <2>1. args \in Seq(STRING)
    BY CommandsAssumption
  <2>2. Len(args) \in Nat
    BY <2>1
  <2> QED BY <2>2
<1> HIDE DEF status
<1> DEFINE c == NoConfig
           l == StartLoad(EmptyStore)
<1>3. IsConfig(c) /\ IsLoad(l) /\ WordsTaken(args, 2, c)
  BY NoWordTaken, NothingLoaded
<1> HIDE DEF c, l
<1>4. NoEngine = [status |-> "none", args |-> <<>>, words |-> 0, config |-> c, file |-> <<>>, lines |-> 0,
                  load |-> l, blocks |-> 0, saved |-> FALSE]
  BY DEF NoEngine, c, l
<1>5. engine' = [status |-> status, args |-> args, words |-> 2, config |-> c, file |-> <<>>, lines |-> 0,
                 load |-> l, blocks |-> 0, saved |-> FALSE]
  BY <1>1, <1>4
<1>6. /\ engine' \in Engines({args}, {c}, {<<>>}, {l})
      /\ engine'.status = status /\ engine'.args = args /\ engine'.words = 2
      /\ engine'.config = c /\ engine'.load = l /\ engine'.saved = FALSE /\ engine'.lines = 0
      /\ engine'.blocks = 0
  BY <1>2, <1>5 DEF Engines, Statuses
<1>7. IsEngine(engine')
  BY <1>3, <1>6 DEF IsEngine
<1>8. WordsInv(engine')
  <2>1. args \in Seq(STRING)
    BY CommandsAssumption
  <2> QED BY <1>2, <1>3, <1>6, <2>1 DEF WordsInv
<1>9. LoadInv(engine') /\ RulesInv(engine')
  BY <1>2, <1>6 DEF LoadInv, RulesInv, l
<1> QED BY <1>6, <1>7, <1>8, <1>9 DEF EngineInv

\* Reading a word.
LEMMA WordIsRead ==
  ASSUME EngineInv(engine), ReadWord
  PROVE  EngineInv(engine') /\ ~engine'.saved
<1> DEFINE c == engine.config
           args == engine.args
           n == engine.words
           config == OnWord(c, args[n + 1])
<1>1. /\ engine.status = "options" /\ n < Len(args)
      /\ engine' = [engine EXCEPT !.words = n + 1, !.config = config,
                                  !.status = IF config.exit = "none" THEN engine.status ELSE config.exit]
  BY DEF ReadWord, MainAt
<1>2. /\ args \in Seq(STRING) /\ 2 <= n /\ n \in Nat /\ WordsTaken(args, n, c)
  BY <1>1 DEF EngineInv, WordsInv, IsEngine, Engines
<1>3. /\ IsConfig(config) /\ (config.exit = "none" => WordsTaken(args, n + 1, config))
  BY <1>1, <1>2, WordTaken
<1> HIDE DEF config
<1>4. config.exit \in {"none", "usage", "exit1"}
  BY <1>3 DEF IsConfig
<1>5. PICK A, C, F, L : engine \in Engines(A, C, F, L)
  BY DEF EngineInv, IsEngine
<1>6. /\ engine'.words = n + 1 /\ engine'.config = config
      /\ engine'.status = (IF config.exit = "none" THEN "options" ELSE config.exit)
      /\ engine'.args = args /\ engine'.file = engine.file /\ engine'.lines = engine.lines
      /\ engine'.load = engine.load /\ engine'.blocks = engine.blocks /\ engine'.saved = engine.saved
  BY <1>1, <1>5 DEF Engines
<1>7. engine' \in Engines(A, {config}, F, L)
  <2>1. (IF config.exit = "none" THEN engine.status ELSE config.exit) \in Statuses /\ n + 1 \in Nat
    BY <1>1, <1>2, <1>4 DEF Statuses
  <2> QED BY <1>1, <1>5, <2>1 DEF Engines
<1>8. IsEngine(engine')
  BY <1>3, <1>6, <1>7 DEF IsEngine, EngineInv
<1>9. /\ ~engine.saved /\ engine.lines = 0 /\ engine.blocks = 0 /\ engine.load = StartLoad(EmptyStore)
  BY <1>1 DEF EngineInv, LoadInv
<1>10. WordsInv(engine')
  <2>1. Len(args) \in Nat
    BY <1>2
  <2> QED BY <1>1, <1>2, <1>3, <1>4, <1>6, <2>1 DEF WordsInv
<1>11. LoadInv(engine') /\ RulesInv(engine')
  BY <1>4, <1>6, <1>9 DEF LoadInv, RulesInv
<1> QED BY <1>6, <1>8, <1>9, <1>10, <1>11 DEF EngineInv

\* Going on without a file of rules.
LEMMA GoesWithoutFile ==
  ASSUME EngineInv(engine), WithoutFile
  PROVE  EngineInv(engine') /\ ~engine'.saved
<1>1. /\ engine.status = "options" /\ engine.words = Len(engine.args) /\ ~engine.config.rules
      /\ engine' = [engine EXCEPT !.status = "setting"]
  BY DEF WithoutFile, AllWordsRead, MainAt, Goto
<1>2. PICK A, C, F, L : engine \in Engines(A, C, F, L)
  BY DEF EngineInv, IsEngine
<1>3. engine' \in Engines(A, C, F, L)
  BY <1>1, <1>2 DEF Engines, Statuses
<1>4. /\ engine'.status = "setting" /\ engine'.words = engine.words /\ engine'.config = engine.config
      /\ engine'.args = engine.args /\ engine'.file = engine.file /\ engine'.lines = engine.lines
      /\ engine'.load = engine.load /\ engine'.blocks = engine.blocks /\ engine'.saved = engine.saved
  BY <1>1, <1>2 DEF Engines
<1>5. IsEngine(engine')
  BY <1>3, <1>4 DEF IsEngine, EngineInv
<1>6. WordsInv(engine')
  BY <1>1, <1>4 DEF EngineInv, WordsInv
<1>7. /\ ~engine.saved /\ engine.blocks = 0 /\ engine.load = StartLoad(EmptyStore)
  BY <1>1 DEF EngineInv, LoadInv
<1>8. LoadInv(engine')
  BY <1>4, <1>7 DEF LoadInv
<1>9. RulesInv(engine')
  <2>1. \A r : r \notin RulesIn(engine'.load.store)
    BY <1>4, <1>7, NothingLoaded, EmptyIsStore
  <2>2. \A r : ~NamedIn(engine'.config.blocks, engine'.blocks, r)
    BY <1>4, <1>7 DEF NamedIn
  <2> QED BY <1>4, <1>7, <2>1, <2>2 DEF RulesInv
<1> QED BY <1>4, <1>5, <1>6, <1>7, <1>8, <1>9 DEF EngineInv

\* Opening the file: a saved one is complete.
LEMMA RulesOpened ==
  ASSUME FirstInv, EngineInv(engine), SavedInv, OpenRules
  PROVE  EngineInv(engine') /\ SavedInv'
<1>1. /\ engine.status = "options" /\ engine.words = Len(engine.args) /\ engine.config.rules /\ ~Saving
      /\ file' = file /\ saving' = saving
      /\ engine' = (IF file = NoFile THEN [engine EXCEPT !.status = "exit1"]
                    ELSE [engine EXCEPT !.status = "loading", !.file = file, !.saved = (saving = Saved)])
  BY DEF OpenRules, AllWordsRead, MainAt, Goto
<1>2. ~engine.saved /\ engine.lines = 0 /\ engine.blocks = 0 /\ engine.load = StartLoad(EmptyStore)
  BY <1>1 DEF EngineInv, LoadInv
<1>3. CASE file = NoFile
  <2>1. engine' = [engine EXCEPT !.status = "exit1"]
    BY <1>1, <1>3
  <2>2. EngineInv(engine') /\ engine'.saved = engine.saved
    BY <2>1, EngineEnds DEF EngineInv
  <2> QED BY <1>2, <2>2 DEF SavedInv
<1>4. CASE file # NoFile
  <2>1. PICK A, C, F, L : engine \in Engines(A, C, F, L)
    BY DEF EngineInv, IsEngine
  <2>2. engine' = [engine EXCEPT !.status = "loading", !.file = file, !.saved = (saving = Saved)]
    BY <1>1, <1>4
  <2>3. engine' \in Engines(A, C, {file}, L)
    BY <2>1, <2>2 DEF Engines, Statuses
  <2>4. /\ engine'.status = "loading" /\ engine'.words = engine.words /\ engine'.config = engine.config
        /\ engine'.args = engine.args /\ engine'.file = file /\ engine'.lines = engine.lines
        /\ engine'.load = engine.load /\ engine'.blocks = engine.blocks
        /\ (engine'.saved <=> saving = Saved)
    BY <2>1, <2>2 DEF Engines
  <2>5. IsEngine(engine')
    BY <2>3, <2>4 DEF IsEngine, EngineInv
  <2>6. WordsInv(engine')
    BY <1>1, <2>4 DEF EngineInv, WordsInv
  <2>7. saving = Saved => IsSaved(file) /\ 0 <= Len(file)
    <3>1. Saved # 0
      BY FourTables DEF Saved
    <3>2. saving = Saved => IsSaved(file)
      BY <3>1 DEF FirstInv, FileInv
    <3> QED BY <3>2 DEF IsSaved
  <2>8. Reading(file, 0, StartLoad(EmptyStore))
    BY NothingLoaded
  <2>9. LoadInv(engine') /\ RulesInv(engine')
    BY <1>1, <1>2, <2>4, <2>7, <2>8 DEF LoadInv, RulesInv
  <2>10. SavedInv'
    BY <1>1, <2>4 DEF SavedInv
  <2> QED BY <2>5, <2>6, <2>9, <2>10 DEF EngineInv
<1> QED BY <1>3, <1>4

\* Loading a line.
LEMMA LineIsLoaded ==
  ASSUME EngineInv(engine), LoadLine
  PROVE  EngineInv(engine') /\ engine'.saved = engine.saved /\ engine'.file = engine.file
<1> DEFINE line == engine.file[engine.lines + 1]
           load == OnLine(engine.load, line)
<1>1. /\ engine.status = "loading" /\ engine.lines < Len(engine.file)
      /\ engine' = [engine EXCEPT !.lines = engine.lines + 1, !.load = load,
                                  !.status = IF load.threw THEN "terminated" ELSE engine.status]
  BY DEF LoadLine, MainAt
<1>2. IsLoad(load)
  BY LineRead DEF EngineInv, IsEngine
<1>3. engine.saved => Reading(engine.file, engine.lines + 1, load)
  <2>1. engine.saved => IsSaved(engine.file) /\ Reading(engine.file, engine.lines, engine.load)
    BY <1>1 DEF EngineInv, LoadInv
  <2>2. engine.lines \in Nat
    BY DEF EngineInv, IsEngine, Engines
  <2> QED BY <1>1, <2>1, <2>2, SavedLineRead
<1> HIDE DEF load
<1>4. PICK A, C, F, L : engine \in Engines(A, C, F, L)
  BY DEF EngineInv, IsEngine
<1>5. engine' \in Engines(A, C, F, {load})
  <2>1. (IF load.threw THEN "terminated" ELSE engine.status) \in Statuses /\ engine.lines + 1 \in Nat
    BY <1>1, <1>4 DEF Statuses, Engines
  <2> QED BY <1>1, <1>4, <2>1 DEF Engines
<1>6. /\ engine'.words = engine.words /\ engine'.config = engine.config
      /\ engine'.status = (IF load.threw THEN "terminated" ELSE "loading")
      /\ engine'.args = engine.args /\ engine'.file = engine.file /\ engine'.lines = engine.lines + 1
      /\ engine'.load = load /\ engine'.blocks = engine.blocks /\ engine'.saved = engine.saved
  BY <1>1, <1>4 DEF Engines
<1>7. IsEngine(engine')
  BY <1>2, <1>5, <1>6 DEF IsEngine, EngineInv
<1>8. WordsInv(engine')
  BY <1>1, <1>6 DEF EngineInv, WordsInv
<1>9. engine.saved => engine.lines + 1 <= Len(engine.file)
  <2>1. engine.saved => Len(engine.file) \in Nat
    BY DEF EngineInv, LoadInv, IsSaved
  <2> QED BY <1>1, <1>4, <2>1 DEF Engines
<1>10. LoadInv(engine') /\ RulesInv(engine')
  BY <1>1, <1>3, <1>6, <1>9 DEF EngineInv, LoadInv, RulesInv
<1> QED BY <1>6, <1>7, <1>8, <1>10 DEF EngineInv

\* All lines are loaded.
LEMMA FileIsLoaded ==
  ASSUME EngineInv(engine), EndOfFile
  PROVE  EngineInv(engine') /\ engine'.saved = engine.saved /\ engine'.file = engine.file
<1>1. /\ engine.status = "loading" /\ engine.lines = Len(engine.file)
      /\ engine' = [engine EXCEPT !.status = "setting"]
  BY DEF EndOfFile, MainAt, Goto
<1>2. PICK A, C, F, L : engine \in Engines(A, C, F, L)
  BY DEF EngineInv, IsEngine
<1>3. engine' \in Engines(A, C, F, L)
  BY <1>1, <1>2 DEF Engines, Statuses
<1>4. /\ engine'.status = "setting" /\ engine'.words = engine.words /\ engine'.config = engine.config
      /\ engine'.args = engine.args /\ engine'.file = engine.file /\ engine'.lines = engine.lines
      /\ engine'.load = engine.load /\ engine'.blocks = engine.blocks /\ engine'.saved = engine.saved
  BY <1>1, <1>2 DEF Engines
<1>5. IsEngine(engine')
  BY <1>3, <1>4 DEF IsEngine, EngineInv
<1>6. WordsInv(engine')
  BY <1>1, <1>4 DEF EngineInv, WordsInv
<1>7. /\ engine.blocks = 0 /\ engine.config.rules
      /\ engine.saved => IsSaved(engine.file) /\ Reading(engine.file, Len(engine.file), engine.load)
  BY <1>1 DEF EngineInv, LoadInv
<1>8. LoadInv(engine')
  BY <1>4, <1>7 DEF LoadInv
<1>9. RulesInv(engine')
  <2>1. \A r : ~NamedIn(engine.config.blocks, 0, r)
    BY DEF NamedIn
  <2> QED BY <1>4, <1>7, <2>1 DEF RulesInv, Reading
<1> QED BY <1>4, <1>5, <1>6, <1>8, <1>9 DEF EngineInv

\* Setting a rule.
LEMMA RuleIsSet ==
  ASSUME EngineInv(engine), SetRule
  PROVE  EngineInv(engine') /\ engine'.saved = engine.saved /\ engine'.file = engine.file
<1> DEFINE block == engine.config.blocks[engine.blocks + 1]
           new == BlockRule(engine.load.store, block)
           load == [engine.load EXCEPT !.store = new]
<1>1. /\ engine.status = "setting"
      /\ engine' = [engine EXCEPT !.blocks = engine.blocks + 1, !.load = load]
  BY DEF SetRule, MainAt
<1>2. IsStore(engine.load.store)
  BY DEF EngineInv, IsEngine, IsLoad
<1>3. IsStore(new) /\ \A r : r \in RulesIn(new) <=> r \in RulesIn(engine.load.store) \/ Names(block, r)
  BY <1>2, RuleAdded
<1> HIDE DEF new
<1>4. IsLoad(load) /\ load.store = new
  <2>1. PICK S, T : engine.load \in [store : S, section : T, threw : BOOLEAN]
    BY DEF EngineInv, IsEngine, IsLoad
  <2>2. load \in [store : {new}, section : T, threw : BOOLEAN] /\ load.store = new
    BY <2>1
  <2> QED BY <1>3, <2>2 DEF IsLoad
<1> HIDE DEF load
<1>5. PICK A, C, F, L : engine \in Engines(A, C, F, L)
  BY DEF EngineInv, IsEngine
<1>6. engine' \in Engines(A, C, F, {load})
  <2>1. engine.blocks + 1 \in Nat
    BY <1>5 DEF Engines
  <2> QED BY <1>1, <1>5, <2>1 DEF Engines
<1>7. /\ engine'.status = "setting" /\ engine'.words = engine.words /\ engine'.config = engine.config
      /\ engine'.args = engine.args /\ engine'.file = engine.file /\ engine'.lines = engine.lines
      /\ engine'.load = load /\ engine'.blocks = engine.blocks + 1 /\ engine'.saved = engine.saved
  BY <1>1, <1>5 DEF Engines
<1>8. IsEngine(engine')
  BY <1>4, <1>6, <1>7 DEF IsEngine, EngineInv
<1>9. WordsInv(engine')
  BY <1>1, <1>7 DEF EngineInv, WordsInv
<1>10. LoadInv(engine')
  BY <1>7 DEF EngineInv, LoadInv
<1>11. \A r : NamedIn(engine.config.blocks, engine.blocks + 1, r) <=>
                NamedIn(engine.config.blocks, engine.blocks, r) \/ Names(block, r)
  <2>1. \A j : j \in 1..(engine.blocks + 1) <=> j \in 1..engine.blocks \/ j = engine.blocks + 1
    BY <1>5 DEF Engines
  <2> QED BY <2>1 DEF NamedIn
<1>12. RulesInv(engine')
  <2>1. /\ engine.saved => \A r : r \in RulesIn(engine.load.store) <=>
             \/ \E m \in 1..Len(engine.file) : Says(engine.file, m, r)
             \/ NamedIn(engine.config.blocks, engine.blocks, r)
        /\ ~engine.config.rules => \A r : r \in RulesIn(engine.load.store) <=>
                                            NamedIn(engine.config.blocks, engine.blocks, r)
    BY <1>1 DEF EngineInv, RulesInv
  <2> HIDE DEF block
  <2> QED BY <1>3, <1>4, <1>7, <1>11, <2>1 DEF RulesInv
<1> QED BY <1>7, <1>8, <1>9, <1>10, <1>12 DEF EngineInv

\* All rules are set.
LEMMA IsReady ==
  ASSUME EngineInv(engine), ReadyToProcess
  PROVE  EngineInv(engine') /\ engine'.saved = engine.saved /\ engine'.file = engine.file
<1>1. /\ engine.status = "setting" /\ engine.blocks = Len(engine.config.blocks)
      /\ engine' = [engine EXCEPT !.status = "ready"]
  BY DEF ReadyToProcess, MainAt, Goto
<1>2. PICK A, C, F, L : engine \in Engines(A, C, F, L)
  BY DEF EngineInv, IsEngine
<1>3. engine' \in Engines(A, C, F, L)
  BY <1>1, <1>2 DEF Engines, Statuses
<1>4. /\ engine'.status = "ready" /\ engine'.words = engine.words /\ engine'.config = engine.config
      /\ engine'.args = engine.args /\ engine'.file = engine.file /\ engine'.lines = engine.lines
      /\ engine'.load = engine.load /\ engine'.blocks = engine.blocks /\ engine'.saved = engine.saved
  BY <1>1, <1>2 DEF Engines
<1>5. IsEngine(engine')
  BY <1>3, <1>4 DEF IsEngine, EngineInv
<1>6. WordsInv(engine') /\ LoadInv(engine') /\ RulesInv(engine')
  BY <1>1, <1>4 DEF EngineInv, WordsInv, LoadInv, RulesInv
<1> QED BY <1>4, <1>5, <1>6 DEF EngineInv

\* Every step of main() keeps what holds of the engine.
LEMMA MainSteps ==
  ASSUME FirstInv, SavedInv, EngineInv(engine), Main
  PROVE  FirstInv' /\ SavedInv' /\ EngineInv(engine')
<1>1. UNCHANGED <<store, clearing, saving, file, changed, standing, ever>>
  BY DEF Main, StartEngine, ReadWord, ValueMissing, WithoutFile, AllWordsRead, OpenRules, LoadLine, EndOfFile,
         SetRule, ReadyToProcess, MainAt
<1>2. FirstInv'
  BY <1>1, FirstKept
<1>3. ASSUME ~engine'.saved \/ (engine'.saved = engine.saved /\ engine'.file = engine.file)
      PROVE  SavedInv'
  BY <1>1, <1>3 DEF SavedInv
<1>4. ASSUME NEW args \in Commands, StartEngine(args) PROVE SavedInv' /\ EngineInv(engine')
  BY <1>3, <1>4, Started
<1>5. CASE ReadWord
  BY <1>2, <1>3, <1>5, WordIsRead
<1>6. CASE ValueMissing
  <2>1. engine' = [engine EXCEPT !.status = "exit1"]
    BY <1>6 DEF ValueMissing, Goto
  <2>2. EngineInv(engine') /\ engine'.saved = engine.saved /\ engine'.file = engine.file
    BY <2>1, EngineEnds DEF EngineInv
  <2> QED BY <1>2, <1>3, <2>2
<1>7. CASE WithoutFile
  BY <1>2, <1>3, <1>7, GoesWithoutFile
<1>8. CASE OpenRules
  BY <1>2, <1>8, RulesOpened
<1>9. CASE LoadLine
  BY <1>2, <1>3, <1>9, LineIsLoaded
<1>10. CASE EndOfFile
  BY <1>2, <1>3, <1>10, FileIsLoaded
<1>11. CASE SetRule
  BY <1>2, <1>3, <1>11, RuleIsSet
<1>12. CASE ReadyToProcess
  BY <1>2, <1>3, <1>12, IsReady
<1> QED BY <1>2, <1>4, <1>5, <1>6, <1>7, <1>8, <1>9, <1>10, <1>11, <1>12 DEF Main

-----------------------------------------------------------------------------
(***************************************************************************)
(* The theorems.                                                            *)
(***************************************************************************)

\* It holds at first.
LEMMA InitInv == Init => IInv
<1> SUFFICES ASSUME Init PROVE IInv
  OBVIOUS
<1>1. /\ store = EmptyStore /\ clearing = 0 /\ saving = 0 /\ engine = NoEngine
      /\ changed = 0 /\ standing = {} /\ ever = {}
  BY DEF Init
<1>2. Counters
  BY <1>1, FourTables, ChangesAssumption DEF Counters, Saved
<1>3. StoreInv
  BY <1>1, EmptyIsStore DEF StoreInv
<1>4. NotedInv /\ FileInv
  BY <1>1, FourTables DEF NotedInv, Saving, FileInv
<1>5. SavedInv /\ EngineInv(engine)
  BY <1>1, EngineAtFirst DEF SavedInv
<1> QED BY <1>2, <1>3, <1>4, <1>5 DEF IInv, FirstInv

\* Every step keeps it.
LEMMA StepInv == IInv /\ [Next]_vars => IInv'
<1> SUFFICES ASSUME IInv, [Next]_vars PROVE IInv'
  OBVIOUS
<1>1. FirstInv /\ SavedInv /\ EngineInv(engine)
  BY DEF IInv
<1>2. CASE (\E c \in Changes : Change(c)) \/ ClearAll \/ ClearTable \/ SaveRules \/ SaveTable
  BY <1>1, <1>2, FirstEngineSteps DEF IInv
<1>3. CASE Main
  BY <1>1, <1>3, MainSteps DEF IInv
<1>4. CASE UNCHANGED vars
  <2>1. FirstInv'
    BY <1>1, <1>4, FirstKept DEF vars
  <2> QED BY <1>1, <1>4, <2>1 DEF vars, IInv, SavedInv
<1> QED BY <1>2, <1>3, <1>4 DEF Next, Terminating

\* So it always holds.
LEMMA AlwaysInv == Spec => []IInv
BY InitInv, StepInv, PTL DEF Spec

\* Stores hold what the types of the tables say, also one that was loaded from a file
\* edited by hand, and what stood all through a save is among what was in force.
THEOREM TypeCorrect == Spec => []TypeOK
<1>1. ASSUME IInv PROVE TypeOK
  <2>1. StoreType(store)
    BY <1>1, StoresHaveTheType DEF IInv, FirstInv, StoreInv
  <2>2. StoreType(engine.load.store)
    BY <1>1, StoresHaveTheType DEF IInv, EngineInv, IsEngine, IsLoad
  <2>3. engine.status \in Statuses
    BY <1>1 DEF IInv, EngineInv, IsEngine, Engines
  <2> QED BY <1>1, <2>1, <2>2, <2>3 DEF TypeOK, Statuses, IInv, FirstInv, Counters
<1> QED BY <1>1, AlwaysInv, PTL

\* An engine that is ready has the rules that stood all through the save of its file and
\* those its command line names, and no other that was never in force; without a file
\* those of the command line alone.
THEOREM SavedRulesAreReloaded == Spec => []SavedRulesReload
<1>1. ASSUME IInv PROVE SavedRulesReload
  <2> DEFINE rules == RulesIn(engine.load.store)
             named == NamedBy(engine.args)
  <2> SUFFICES ASSUME engine.status = "ready"
               PROVE  IF NamesFile(engine.args)
                      THEN engine.saved => standing \cup named \subseteq rules /\ rules \subseteq ever \cup named
                      ELSE rules = named
    BY DEF SavedRulesReload
  <2>1. /\ engine.args \in Seq(STRING) /\ Len(engine.args) >= 2
        /\ WordsTaken(engine.args, Len(engine.args), engine.config)
    <3>1. /\ engine.args \in Seq(STRING) /\ 2 <= engine.words /\ engine.words = Len(engine.args)
          /\ WordsTaken(engine.args, engine.words, engine.config)
      BY <1>1 DEF IInv, EngineInv, WordsInv
    <3> QED BY <3>1
  <2>2. /\ \A r : r \in named <=> NamedIn(engine.config.blocks, engine.blocks, r)
        /\ engine.config.rules <=> NamesFile(engine.args)
    <3>1. engine.blocks = Len(engine.config.blocks)
      BY <1>1 DEF IInv, EngineInv, RulesInv
    <3> QED BY <2>1, <3>1, AllWordsTaken
  <2>3. /\ engine.saved => \A r : r \in rules <=>
             (\E m \in 1..Len(engine.file) : Says(engine.file, m, r)) \/ r \in named
        /\ ~NamesFile(engine.args) => \A r : r \in rules <=> r \in named
    BY <1>1, <2>2 DEF IInv, EngineInv, RulesInv
  <2>4. ASSUME engine.saved
        PROVE  /\ \A r \in standing : \E m \in 1..Len(engine.file) : Says(engine.file, m, r)
               /\ \A r : (\E m \in 1..Len(engine.file) : Says(engine.file, m, r)) => r \in ever
    <3>1. saving = Saved /\ engine.file = file
      BY <1>1, <2>4 DEF IInv, SavedInv
    <3>2. saving = 5
      BY <3>1, FourTables DEF Saved
    <3> QED BY <1>1, <3>1, <3>2 DEF IInv, FirstInv, FileInv
  <2> HIDE DEF rules, named
  <2>5. CASE ~NamesFile(engine.args)
    <3>1. rules = named
      BY <2>3, <2>5
    <3> QED BY <2>5, <3>1
  <2>6. ASSUME engine.saved PROVE standing \cup named \subseteq rules /\ rules \subseteq ever \cup named
    <3>1. standing \subseteq rules
      BY <2>3, <2>4, <2>6
    <3>2. named \subseteq rules
      BY <2>3, <2>6
    <3>3. rules \subseteq ever \cup named
      BY <2>3, <2>4, <2>6
    <3> QED BY <3>1, <3>2, <3>3
  <2> QED BY <2>5, <2>6
<1> QED BY <1>1, AlwaysInv, PTL
=============================================================================
