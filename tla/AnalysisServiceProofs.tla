------------------------ MODULE AnalysisServiceProofs ------------------------
(***************************************************************************)
(* Proofs about AnalysisService for any requests, any bodies they may have  *)
(* and any applications.                                                    *)
(***************************************************************************)
EXTENDS AnalysisService, FiniteSetTheorems, SequenceTheorems, WellFoundedInduction, TLAPS

-----------------------------------------------------------------------------
(***************************************************************************)
(* What a recursion over numbers leaves, step by step.                      *)
(***************************************************************************)

\* A set of numbers has a least member: what a property of all numbers is proved by.
LEMMA LeastMember ==
  ASSUME NEW S \in SUBSET Nat, S # {}
  PROVE  \E m \in S : \A n \in S : m <= n
<1> DEFINE R == OpToRel(<, Nat)
<1>1. \A m, n \in Nat : <<n, m>> \in R <=> n < m
  BY DEF OpToRel
<1>2. IsWellFoundedOn(R, Nat)
  BY NatLessThanWellFounded
<1> HIDE DEF R
<1>3. PICK m \in S : \A n \in S : <<n, m>> \notin R
  BY <1>2, WFMin
<1>4. \A n \in S : ~(n < m)
  BY <1>1, <1>3
<1> QED BY <1>4

\* f[n] is what main() has read after n words, for n up to m.
WordsUpTo(args, f, m) ==
  f = [n \in 0..m |-> IF n <= 2 THEN NoConfig ELSE OnWord(f[n - 1], args[n])]

\* The recursion over the words has a solution.
LEMMA WordsExist ==
  ASSUME NEW args, NEW m \in Nat
  PROVE  \E f : WordsUpTo(args, f, m)
<1> DEFINE S == {k \in Nat : ~\E f : WordsUpTo(args, f, k)}
<1> SUFFICES ASSUME S # {} PROVE FALSE
  OBVIOUS
<1>1. PICK k \in S : \A n \in S : k <= n
  BY LeastMember
<1>2. k \in Nat /\ ~\E f : WordsUpTo(args, f, k)
  OBVIOUS
<1>3. k > 2
  <2> SUFFICES ASSUME k <= 2 PROVE FALSE
    BY <1>2
  <2> DEFINE f == [n \in 0..k |-> NoConfig]
  <2>1. \A n \in 0..k : n <= 2
    BY <1>2
  <2>2. WordsUpTo(args, f, k)
    BY <2>1 DEF WordsUpTo
  <2> QED BY <1>2, <2>2
<1>4. k - 1 \in Nat /\ ~(k <= k - 1)
  BY <1>2, <1>3
<1>5. PICK g : WordsUpTo(args, g, k - 1)
  BY <1>1, <1>4
<1> DEFINE f == [n \in 0..k |-> IF n = k THEN OnWord(g[k - 1], args[k]) ELSE g[n]]
<1> HIDE DEF S
<1>6. \A n \in 0..k : f[n] = IF n = k THEN OnWord(g[k - 1], args[k]) ELSE g[n]
  OBVIOUS
<1>7. \A n \in 0..(k - 1) : g[n] = IF n <= 2 THEN NoConfig ELSE OnWord(g[n - 1], args[n])
  BY <1>5 DEF WordsUpTo
<1>8. \A n \in 0..k : f[n] = IF n <= 2 THEN NoConfig ELSE OnWord(f[n - 1], args[n])
  <2> SUFFICES ASSUME NEW n \in 0..k
               PROVE  f[n] = IF n <= 2 THEN NoConfig ELSE OnWord(f[n - 1], args[n])
    OBVIOUS
  <2> HIDE DEF f
  <2>1. CASE n = k
    <3>1. k - 1 \in 0..k /\ k - 1 # k
      BY <1>2, <1>4
    <3>2. f[k - 1] = g[k - 1]
      BY <1>6, <3>1
    <3>3. ~(k <= 2)
      BY <1>2, <1>3
    <3> QED BY <1>6, <2>1, <3>2, <3>3
  <2>2. CASE n <= 2
    <3>1. n \in 0..(k - 1) /\ n # k
      BY <1>2, <1>3, <2>2
    <3> QED BY <1>6, <1>7, <2>2, <3>1
  <2>3. CASE ~(n <= 2) /\ n # k
    <3>1. n \in 0..(k - 1) /\ n - 1 \in 0..k /\ n - 1 # k
      BY <1>2, <2>3
    <3>2. f[n - 1] = g[n - 1] /\ f[n] = g[n]
      BY <1>6, <2>3, <3>1
    <3> QED BY <1>7, <2>3, <3>1, <3>2
  <2> QED BY <2>1, <2>2, <2>3
<1>9. f = [n \in 0..k |-> f[n]]
  OBVIOUS
<1> HIDE DEF f
<1>10. WordsUpTo(args, f, k)
  BY <1>8, <1>9 DEF WordsUpTo
<1> QED BY <1>2, <1>10

\* So the words are read one after the other, after the two files.
LEMMA WordsUnfold ==
  ASSUME NEW args, Len(args) \in Nat
  PROVE  /\ \A n \in 0..Len(args) : n <= 2 => WordsRead(args)[n] = NoConfig
         /\ \A n \in 3..Len(args) :
              WordsRead(args)[n] = OnWord(WordsRead(args)[n - 1], args[n])
<1> DEFINE read == WordsRead(args)
<1>1. read = CHOOSE f : WordsUpTo(args, f, Len(args))
  BY DEF WordsRead, WordsUpTo
<1>2. WordsUpTo(args, read, Len(args))
  BY <1>1, WordsExist
<1> HIDE DEF read
<1>3. \A n \in 0..Len(args) :
        read[n] = IF n <= 2 THEN NoConfig ELSE OnWord(read[n - 1], args[n])
  BY <1>2 DEF WordsUpTo
<1>4. \A n \in 3..Len(args) : n \in 0..Len(args) /\ ~(n <= 2)
  OBVIOUS
<1> QED BY <1>3, <1>4 DEF read

\* f[n] is what the first n of some rules make of a store, for n up to m.
RulesUpTo(store, blocks, f, m) ==
  f = [n \in 0..m |-> IF n = 0 THEN store ELSE BlockRule(f[n - 1], blocks[n])]

\* The recursion over the rules has a solution.
LEMMA RulesExist ==
  ASSUME NEW store, NEW blocks, NEW m \in Nat
  PROVE  \E f : RulesUpTo(store, blocks, f, m)
<1> DEFINE S == {k \in Nat : ~\E f : RulesUpTo(store, blocks, f, k)}
<1> SUFFICES ASSUME S # {} PROVE FALSE
  OBVIOUS
<1>1. PICK k \in S : \A n \in S : k <= n
  BY LeastMember
<1>2. k \in Nat /\ ~\E f : RulesUpTo(store, blocks, f, k)
  OBVIOUS
<1>3. k # 0
  <2> DEFINE f == [n \in 0..0 |-> store]
  <2>1. RulesUpTo(store, blocks, f, 0)
    <3>1. \A n \in 0..0 : n = 0
      OBVIOUS
    <3> QED BY <3>1 DEF RulesUpTo
  <2> QED BY <1>2, <2>1
<1>4. k - 1 \in Nat /\ ~(k <= k - 1)
  BY <1>2, <1>3
<1>5. PICK g : RulesUpTo(store, blocks, g, k - 1)
  BY <1>1, <1>4
<1> DEFINE f == [n \in 0..k |-> IF n = k THEN BlockRule(g[k - 1], blocks[k]) ELSE g[n]]
<1> HIDE DEF S
<1>6. \A n \in 0..k : f[n] = IF n = k THEN BlockRule(g[k - 1], blocks[k]) ELSE g[n]
  OBVIOUS
<1>7. \A n \in 0..(k - 1) : g[n] = IF n = 0 THEN store ELSE BlockRule(g[n - 1], blocks[n])
  BY <1>5 DEF RulesUpTo
<1>8. \A n \in 0..k : f[n] = IF n = 0 THEN store ELSE BlockRule(f[n - 1], blocks[n])
  <2> SUFFICES ASSUME NEW n \in 0..k
               PROVE  f[n] = IF n = 0 THEN store ELSE BlockRule(f[n - 1], blocks[n])
    OBVIOUS
  <2> HIDE DEF f
  <2>1. CASE n = k
    <3>1. k - 1 \in 0..k /\ k - 1 # k
      BY <1>2, <1>4
    <3>2. f[k - 1] = g[k - 1]
      BY <1>6, <3>1
    <3> QED BY <1>3, <1>6, <2>1, <3>2
  <2>2. CASE n = 0
    <3>1. 0 \in 0..(k - 1) /\ n # k
      BY <1>3, <1>4, <2>2
    <3> QED BY <1>6, <1>7, <2>2, <3>1
  <2>3. CASE n # 0 /\ n # k
    <3>1. n \in 0..(k - 1) /\ n - 1 \in 0..k /\ n - 1 # k
      BY <1>2, <2>3
    <3>2. f[n - 1] = g[n - 1] /\ f[n] = g[n]
      BY <1>6, <2>3, <3>1
    <3> QED BY <1>7, <2>3, <3>1, <3>2
  <2> QED BY <2>1, <2>2, <2>3
<1>9. f = [n \in 0..k |-> f[n]]
  OBVIOUS
<1> HIDE DEF f
<1>10. RulesUpTo(store, blocks, f, k)
  BY <1>8, <1>9 DEF RulesUpTo
<1> QED BY <1>2, <1>10

\* So the rules are set one after the other.
LEMMA RulesUnfold ==
  ASSUME NEW store, NEW blocks, Len(blocks) \in Nat
  PROVE  /\ RulesSet(store, blocks)[0] = store
         /\ \A n \in 1..Len(blocks) :
              RulesSet(store, blocks)[n] = BlockRule(RulesSet(store, blocks)[n - 1], blocks[n])
<1> DEFINE set == RulesSet(store, blocks)
<1>1. set = CHOOSE f : RulesUpTo(store, blocks, f, Len(blocks))
  BY DEF RulesSet, RulesUpTo
<1>2. RulesUpTo(store, blocks, set, Len(blocks))
  BY <1>1, RulesExist
<1> HIDE DEF set
<1>3. \A n \in 0..Len(blocks) : set[n] = IF n = 0 THEN store ELSE BlockRule(set[n - 1], blocks[n])
  BY <1>2 DEF RulesUpTo
<1>4. 0 \in 0..Len(blocks) /\ \A n \in 1..Len(blocks) : n \in 0..Len(blocks) /\ n # 0
  OBVIOUS
<1> QED BY <1>3, <1>4 DEF set

-----------------------------------------------------------------------------
(***************************************************************************)
(* The command line that is built for a request.                            *)
(***************************************************************************)

\* An option and its value, which is a word of the body or the name of the report.
OptionType == [option : ValueOptions, value : STRING \cup {"report"}]

\* An option with each of some words.
WithOption(option, words) == {[option |-> option, value |-> v] : v \in Values(words)}

\* An option before each of some words gives that.
LEMMA EachOption ==
  \A option \in ValueOptions, words \in Seq(STRING) :
    /\ Each(option, words) \in Seq(OptionType)
    /\ Range(Each(option, words)) = WithOption(option, words)
<1> SUFFICES ASSUME NEW option \in ValueOptions, NEW words \in Seq(STRING)
             PROVE  /\ Each(option, words) \in Seq(OptionType)
                    /\ Range(Each(option, words)) = WithOption(option, words)
  OBVIOUS
<1>1. DOMAIN words = 1..Len(words) /\ Len(words) \in Nat
  OBVIOUS
<1>2. \A i \in DOMAIN words : words[i] \in STRING
  OBVIOUS
<1>3. Each(option, words) \in Seq(OptionType)
  BY <1>1, <1>2 DEF Each, OptionType
<1>4. DOMAIN Each(option, words) = DOMAIN words
  BY DEF Each
<1>5. \A i \in DOMAIN words : Each(option, words)[i] = [option |-> option, value |-> words[i]]
  BY DEF Each
<1>6. Range(Each(option, words)) = {[option |-> option, value |-> words[i]] : i \in DOMAIN words}
  BY <1>4, <1>5 DEF Range
<1>7. {[option |-> option, value |-> words[i]] : i \in DOMAIN words}
        = WithOption(option, words)
  BY DEF Values, WithOption
<1> QED BY <1>3, <1>6, <1>7

BodyType == [blockApps : Seq(STRING), blockIps : Seq(STRING),
             blockDomains : Seq(STRING), lbs : STRING, fps : STRING]

\* The options that name a rule, of a body.
BlocksOf(body) ==
  WithOption("--block-app", body.blockApps)
    \cup WithOption("--block-ip", body.blockIps)
    \cup WithOption("--block-domain", body.blockDomains)

\* The options a body gives are those that name its rules and three others.
LEMMA OptionsOfBody ==
  ASSUME NEW body \in BodyType
  PROVE  /\ OptionsOf(body) \in Seq(OptionType)
         /\ Range(OptionsOf(body)) =
              BlocksOf(body) \cup
                {[option |-> "--lbs", value |-> body.lbs], [option |-> "--fps", value |-> body.fps],
                 [option |-> "--json-report", value |-> "report"]}
<1> DEFINE A == Each("--block-app", body.blockApps)
           I == Each("--block-ip", body.blockIps)
           D == Each("--block-domain", body.blockDomains)
           L == [option |-> "--lbs", value |-> body.lbs]
           F == [option |-> "--fps", value |-> body.fps]
           J == [option |-> "--json-report", value |-> "report"]
           T == <<L, F, J>>
<1>1. /\ body.blockApps \in Seq(STRING) /\ body.blockIps \in Seq(STRING)
      /\ body.blockDomains \in Seq(STRING) /\ body.lbs \in STRING /\ body.fps \in STRING
  BY DEF BodyType
<1>2. L \in OptionType /\ F \in OptionType /\ J \in OptionType
  BY <1>1 DEF OptionType, ValueOptions, BlockOptions, CountOptions
<1>o. {"--block-app", "--block-ip", "--block-domain"} \subseteq ValueOptions
  BY DEF ValueOptions, BlockOptions
<1>3. /\ A \in Seq(OptionType)
      /\ Range(A) = WithOption("--block-app", body.blockApps)
  BY <1>1, <1>o, EachOption
<1>4. /\ I \in Seq(OptionType)
      /\ Range(I) = WithOption("--block-ip", body.blockIps)
  BY <1>1, <1>o, EachOption
<1>5. /\ D \in Seq(OptionType)
      /\ Range(D) = WithOption("--block-domain", body.blockDomains)
  BY <1>1, <1>o, EachOption
<1>6. OptionsOf(body) = A \o I \o D \o T
  BY DEF OptionsOf
<1> HIDE DEF A, I, D, L, F, J
<1>7. T \in Seq(OptionType) /\ Range(T) = {L, F, J}
  <2>1. T \in Seq(OptionType) /\ Len(T) = 3
    BY <1>2
  <2>2. Range(T) = {T[i] : i \in 1..3}
    BY <2>1, RangeEquality
  <2>3. 1..3 = {1, 2, 3}
    OBVIOUS
  <2>4. T[1] = L /\ T[2] = F /\ T[3] = J
    OBVIOUS
  <2> HIDE DEF T
  <2>5. {T[i] : i \in {1, 2, 3}} = {T[1], T[2], T[3]}
    OBVIOUS
  <2> QED BY <2>1, <2>2, <2>3, <2>4, <2>5
<1> HIDE DEF T
<1>0. \A s, t \in Seq(OptionType) :
        s \o t \in Seq(OptionType) /\ Range(s \o t) = Range(s) \cup Range(t)
  BY RangeConcatenation
<1>8. A \o I \in Seq(OptionType) /\ Range(A \o I) = Range(A) \cup Range(I)
  BY <1>0, <1>3, <1>4
<1>9. A \o I \o D \in Seq(OptionType) /\ Range(A \o I \o D) = Range(A \o I) \cup Range(D)
  BY <1>0, <1>5, <1>8
<1>10. /\ A \o I \o D \o T \in Seq(OptionType)
       /\ Range(A \o I \o D \o T) = Range(A \o I \o D) \cup Range(T)
  BY <1>0, <1>7, <1>9
<1>11. Range(OptionsOf(body)) = BlocksOf(body) \cup {L, F, J}
  BY <1>3, <1>4, <1>5, <1>6, <1>7, <1>8, <1>9, <1>10 DEF BlocksOf
<1> QED BY <1>6, <1>10, <1>11 DEF L, F, J

\* What the command line is: two files, then each option and its value.
LEMMA CommandWords ==
  ASSUME NEW body \in BodyType
  PROVE  LET options == OptionsOf(body)
             args == BuildCommand(body)
         IN /\ Len(options) \in Nat
            /\ Len(args) = 2 * Len(options) + 2 /\ args[1] = "input"
            /\ \A k \in 1..Len(options) :
                 args[2 * k + 1] = options[k].option /\ args[2 * k + 2] = options[k].value
<1> DEFINE options == OptionsOf(body)
           args == BuildCommand(body)
           m == Len(options)
<1>1. options \in Seq(OptionType)
  BY OptionsOfBody
<1>2. m \in Nat
  BY <1>1
<1>3. args = [i \in 1..(2 * m + 2) |->
                IF i = 1 THEN "input" ELSE IF i = 2 THEN "output"
                ELSE IF i % 2 = 1 THEN options[i \div 2].option ELSE options[i \div 2 - 1].value]
  BY DEF BuildCommand
<1> HIDE DEF options, args
<1>4. 2 * m + 2 \in Nat
  BY <1>2
<1>5. Len(args) = 2 * m + 2
  BY <1>3, <1>4
<1>6. args[1] = "input"
  <2>1. 1 \in 1..(2 * m + 2)
    BY <1>2
  <2> QED BY <1>3, <2>1
<1>7. ASSUME NEW k \in 1..m
      PROVE  args[2 * k + 1] = options[k].option /\ args[2 * k + 2] = options[k].value
  <2>1. k \in Nat /\ k >= 1
    BY <1>2
  <2>2. 2 * k + 1 \in 1..(2 * m + 2) /\ 2 * k + 2 \in 1..(2 * m + 2)
    BY <1>2, <2>1
  <2>3. 2 * k + 1 # 1 /\ 2 * k + 1 # 2 /\ 2 * k + 2 # 1 /\ 2 * k + 2 # 2
    BY <2>1
  <2>4. (2 * k + 1) % 2 = 1 /\ (2 * k + 1) \div 2 = k
    BY <2>1
  <2>5. (2 * k + 2) % 2 # 1 /\ (2 * k + 2) \div 2 - 1 = k
    BY <2>1
  <2>6. args[2 * k + 1] = options[k].option
    BY <1>3, <2>2, <2>3, <2>4
  <2>7. args[2 * k + 2] = options[k].value
    BY <1>3, <2>2, <2>3, <2>5
  <2> QED BY <2>6, <2>7
<1> QED BY <1>2, <1>5, <1>6, <1>7 DEF options, args

-----------------------------------------------------------------------------
(***************************************************************************)
(* What main() reads of that command line.                                  *)
(***************************************************************************)

\* Between two options, nothing wrong so far.
IdleConfig == [exit : {"none"}, option : {""}, rules : BOOLEAN, blocks : Seq(OptionType)]

\* An option main() has no complaint about.
Accepted(o) == o.option # "--rules" /\ (o.option \in CountOptions => ParsePositiveInt(o.value))

\* Two of the fields change, one at a time.
LEMMA ConfigExcept ==
  ASSUME NEW e, NEW o, NEW r, NEW b, NEW x
  PROVE  LET config == [exit |-> e, option |-> o, rules |-> r, blocks |-> b]
         IN /\ [config EXCEPT !.option = x] = [exit |-> e, option |-> x, rules |-> r, blocks |-> b]
            /\ [config EXCEPT !.blocks = x] = [exit |-> e, option |-> o, rules |-> r, blocks |-> x]
OBVIOUS

\* An option and its value are read together: one that names a rule is kept.
LEMMA OptionRead ==
  ASSUME NEW config \in IdleConfig, NEW o \in OptionType, Accepted(o)
  PROVE  LET after == OnWord(OnWord(config, o.option), o.value)
         IN /\ after \in IdleConfig
            /\ after.blocks = IF o.option \in BlockOptions THEN Append(config.blocks, o)
                              ELSE config.blocks
<1>0. PICK R \in BOOLEAN, B \in Seq(OptionType) :
        config = [exit |-> "none", option |-> "", rules |-> R, blocks |-> B]
  BY DEF IdleConfig
<1> DEFINE waiting == [exit |-> "none", option |-> o.option, rules |-> R, blocks |-> B]
           after == OnWord(OnWord(config, o.option), o.value)
<1>1. o.option \in ValueOptions /\ o = [option |-> o.option, value |-> o.value]
  BY DEF OptionType
<1>2. OnWord(config, o.option) = waiting
  <2>1. OnWord(config, o.option) = [config EXCEPT !.option = o.option]
    BY <1>0, <1>1 DEF OnWord
  <2> QED BY <1>0, <2>1, ConfigExcept
<1>3. o.option # ""
  BY <1>1 DEF ValueOptions, BlockOptions, CountOptions
<1>4. after = TakeValue(waiting, o.value) /\ waiting.option = o.option
  <2>1. waiting.exit = "none" /\ waiting.option = o.option
    OBVIOUS
  <2>2. after = OnWord(waiting, o.value)
    BY <1>2
  <2> HIDE DEF waiting, after
  <2>3. OnWord(waiting, o.value) = TakeValue(waiting, o.value)
    BY <1>3, <2>1 DEF OnWord
  <2> QED BY <2>1, <2>2, <2>3
<1>5. [waiting EXCEPT !.option = ""] = config
  <2> DEFINE name == o.option
  <2> HIDE DEF name
  <2>2. waiting = [exit |-> "none", option |-> name, rules |-> R, blocks |-> B]
    BY DEF name
  <2> HIDE DEF waiting
  <2>1. \A w : [waiting EXCEPT !.option = w] = [exit |-> "none", option |-> w, rules |-> R, blocks |-> B]
    BY <2>2, ConfigExcept
  <2> QED BY <1>0, <2>1
<1> HIDE DEF waiting, after
<1>6. CASE o.option \in BlockOptions
  <2>1. after = [config EXCEPT !.blocks = Append(@, [option |-> o.option, value |-> o.value])]
    BY <1>4, <1>5, <1>6 DEF TakeValue
  <2>2. after = [config EXCEPT !.blocks = Append(B, o)]
    BY <1>0, <1>1, <2>1
  <2>3. after = [exit |-> "none", option |-> "", rules |-> R, blocks |-> Append(B, o)]
    BY <1>0, <2>2, ConfigExcept
  <2>4. Append(B, o) \in Seq(OptionType)
    OBVIOUS
  <2>5. after \in IdleConfig /\ after.blocks = Append(config.blocks, o)
    BY <1>0, <2>3, <2>4 DEF IdleConfig
  <2> QED BY <1>6, <2>5 DEF after
<1>7. CASE o.option \notin BlockOptions
  <2>1. after = config
    BY <1>4, <1>5, <1>7 DEF TakeValue, Accepted
  <2> QED BY <1>7, <2>1 DEF after
<1> QED BY <1>6, <1>7

\* A body as the web server accepts it.
Valid(body) ==
  body \in BodyType /\ ParsePositiveInt(body.lbs) /\ ParsePositiveInt(body.fps)

\* main() has no complaint about any option of a request.
LEMMA OptionsAccepted ==
  ASSUME NEW body, Valid(body)
  PROVE  \A k \in 1..Len(OptionsOf(body)) :
           OptionsOf(body)[k] \in OptionType /\ Accepted(OptionsOf(body)[k])
<1> DEFINE options == OptionsOf(body)
<1>1. body \in BodyType
  BY DEF Valid
<1>2. options \in Seq(OptionType)
  BY <1>1, OptionsOfBody
<1>3. Range(options) = BlocksOf(body) \cup
        {[option |-> "--lbs", value |-> body.lbs], [option |-> "--fps", value |-> body.fps],
         [option |-> "--json-report", value |-> "report"]}
  BY <1>1, OptionsOfBody
<1> HIDE DEF options
<1>4. ASSUME NEW k \in 1..Len(options)
      PROVE  options[k] \in OptionType /\ options[k] \in Range(options)
  BY <1>2 DEF Range
<1>6. \A o \in BlocksOf(body) : o.option \in BlockOptions
  BY DEF BlocksOf, BlockOptions, WithOption
<1>7. \A o \in BlocksOf(body) : Accepted(o)
  BY <1>6 DEF Accepted, BlockOptions, CountOptions
<1>8. /\ Accepted([option |-> "--lbs", value |-> body.lbs])
      /\ Accepted([option |-> "--fps", value |-> body.fps])
      /\ Accepted([option |-> "--json-report", value |-> "report"])
  BY DEF Accepted, CountOptions, Valid
<1>9. \A o \in Range(options) : Accepted(o)
  BY <1>3, <1>7, <1>8
<1> QED BY <1>4, <1>9 DEF options

\* The options that name a rule among the first k.
FirstBlocks(options, k) == {options[j] : j \in {i \in 1..k : options[i].option \in BlockOptions}}

\* After k options main() has kept those of them that name a rule.
LEMMA OptionsRead ==
  ASSUME NEW body, Valid(body)
  PROVE  \A k \in 0..Len(OptionsOf(body)) :
           LET config == WordsRead(BuildCommand(body))[2 * k + 2]
           IN /\ config \in IdleConfig
              /\ Range(config.blocks) = FirstBlocks(OptionsOf(body), k)
<1> DEFINE options == OptionsOf(body)
           args == BuildCommand(body)
           m == Len(options)
           Read(n) == WordsRead(args)[n]
           Good(k) == /\ Read(2 * k + 2) \in IdleConfig
                      /\ Range(Read(2 * k + 2).blocks) = FirstBlocks(options, k)
           S == {k \in 0..m : ~Good(k)}
<1>1. m \in Nat /\ Len(args) = 2 * m + 2
  BY CommandWords DEF Valid
<1>2. \A k \in 1..m : args[2 * k + 1] = options[k].option /\ args[2 * k + 2] = options[k].value
  BY CommandWords DEF Valid
<1>3. \A k \in 1..m : options[k] \in OptionType /\ Accepted(options[k])
  BY OptionsAccepted
<1>4. Len(args) \in Nat
  BY <1>1
<1>5. Read(2) = NoConfig
  <2>1. 2 \in 0..Len(args)
    BY <1>1
  <2> QED BY <1>4, <2>1, WordsUnfold
<1>6. \A n \in 3..Len(args) : Read(n) = OnWord(Read(n - 1), args[n])
  BY <1>4, WordsUnfold
<1> SUFFICES ASSUME S # {} PROVE FALSE
  OBVIOUS
<1> HIDE DEF options, args, Read
<1>7. S \in SUBSET Nat
  BY <1>1
<1>8. PICK k \in S : \A n \in S : k <= n
  BY <1>7, LeastMember
<1>9. k \in 0..m /\ ~Good(k)
  OBVIOUS
<1>10. k # 0
  <2> SUFFICES ASSUME k = 0 PROVE FALSE
    OBVIOUS
  <2>1. 2 * k + 2 = 2 /\ 1..k = {}
    OBVIOUS
  <2>2. NoConfig \in IdleConfig /\ NoConfig.blocks = <<>>
    <3>1. <<>> \in Seq(OptionType)
      OBVIOUS
    <3> QED BY <3>1 DEF NoConfig, IdleConfig
  <2>3. Range(<<>>) = {}
    BY DEF Range
  <2>4. FirstBlocks(options, k) = {}
    BY <2>1 DEF FirstBlocks
  <2> QED BY <1>5, <1>9, <2>1, <2>2, <2>3, <2>4
<1>11. k \in 1..m /\ k - 1 \in 0..m /\ ~(k <= k - 1) /\ k \in Nat
  BY <1>1, <1>9, <1>10
<1>12. Good(k - 1)
  BY <1>8, <1>11
<1> HIDE DEF S
<1> DEFINE before == Read(2 * k)
           o == options[k]
           after == OnWord(OnWord(before, o.option), o.value)
<1>13. before \in IdleConfig /\ Range(before.blocks) = FirstBlocks(options, k - 1)
  <2>1. 2 * (k - 1) + 2 = 2 * k
    BY <1>11
  <2> QED BY <1>12, <2>1
<1>14. Read(2 * k + 2) = after
  <2>1. 2 * k + 1 \in 3..Len(args) /\ 2 * k + 1 - 1 = 2 * k
    BY <1>1, <1>11
  <2>2. 2 * k + 2 \in 3..Len(args) /\ 2 * k + 2 - 1 = 2 * k + 1
    BY <1>1, <1>11
  <2>3. Read(2 * k + 1) = OnWord(before, o.option)
    BY <1>2, <1>6, <1>11, <2>1
  <2>4. Read(2 * k + 2) = OnWord(Read(2 * k + 1), o.value)
    BY <1>2, <1>6, <1>11, <2>2
  <2> QED BY <2>3, <2>4
<1>15. o \in OptionType /\ Accepted(o)
  BY <1>3, <1>11
<1> HIDE DEF before
<1>16. /\ after \in IdleConfig
       /\ after.blocks = IF o.option \in BlockOptions THEN Append(before.blocks, o) ELSE before.blocks
  BY <1>13, <1>15, OptionRead
<1> HIDE DEF after
<1>17. before.blocks \in Seq(OptionType)
  BY <1>13 DEF IdleConfig
<1>18. Range(Append(before.blocks, o)) = Range(before.blocks) \cup {o}
  <2> DEFINE b == before.blocks
             c == Append(b, o)
  <2>1. b \in Seq(OptionType) /\ c \in Seq(OptionType)
    BY <1>15, <1>17
  <2>2. Len(c) = Len(b) + 1 /\ c[Len(b) + 1] = o /\ \A i \in 1..Len(b) : c[i] = b[i]
    BY <1>15, <1>17
  <2>3. Range(b) = {b[i] : i \in 1..Len(b)} /\ Range(c) = {c[i] : i \in 1..Len(c)}
    BY <2>1, RangeEquality
  <2>4. Len(b) \in Nat
    BY <2>1
  <2> HIDE DEF b, c
  <2>5. 1..(Len(b) + 1) = (1..Len(b)) \cup {Len(b) + 1}
    BY <2>4
  <2>6. Range(c) = Range(b) \cup {o}
    BY <2>2, <2>3, <2>5
  <2> QED BY <2>6 DEF b, c
<1>19. FirstBlocks(options, k) = FirstBlocks(options, k - 1) \cup
                                   (IF o.option \in BlockOptions THEN {o} ELSE {})
  <2>1. 1..k = (1..(k - 1)) \cup {k}
    BY <1>11
  <2> QED BY <2>1 DEF FirstBlocks
<1>20. Range(after.blocks) = FirstBlocks(options, k)
  BY <1>13, <1>16, <1>18, <1>19
<1> QED BY <1>9, <1>14, <1>16, <1>20

\* The engine of a request starts, with the rules the body names to set.
LEMMA RequestRead ==
  ASSUME NEW body, Valid(body)
  PROVE  LET config == ParseOptions(BuildCommand(body))
         IN /\ config.exit = "none"
            /\ config.blocks \in Seq(OptionType) /\ Range(config.blocks) = BlocksOf(body)
<1> DEFINE options == OptionsOf(body)
           args == BuildCommand(body)
           m == Len(options)
           config == WordsRead(args)[Len(args)]
<1>1. m \in Nat /\ Len(args) = 2 * m + 2 /\ args[1] = "input"
  BY CommandWords DEF Valid
<1>2. config \in IdleConfig /\ Range(config.blocks) = FirstBlocks(options, m)
  BY <1>1, OptionsRead
<1>3. body \in BodyType
  BY DEF Valid
<1>4. options \in Seq(OptionType)
  BY <1>3, OptionsOfBody
<1>5. Range(options) = BlocksOf(body) \cup
        {[option |-> "--lbs", value |-> body.lbs], [option |-> "--fps", value |-> body.fps],
         [option |-> "--json-report", value |-> "report"]}
  BY <1>3, OptionsOfBody
<1>6. ParseOptions(args) =
        IF args # <<>> /\ args[1] \in HelpOptions THEN ExitWith("usage")
        ELSE IF Len(args) < 2 \/ config.option # "" THEN ExitWith("exit1")
        ELSE config
  BY DEF ParseOptions
<1> HIDE DEF options, args, config
<1>7. config.exit = "none" /\ config.option = "" /\ config.blocks \in Seq(OptionType)
  BY <1>2 DEF IdleConfig
<1>8. args[1] \notin HelpOptions /\ ~(Len(args) < 2)
  BY <1>1 DEF HelpOptions
<1>9. ParseOptions(args) = config
  BY <1>6, <1>7, <1>8
<1>10. FirstBlocks(options, m) = {o \in Range(options) : o.option \in BlockOptions}
  <2>1. Range(options) = {options[i] : i \in 1..m}
    BY <1>4, RangeEquality
  <2> QED BY <2>1 DEF FirstBlocks
<1>11. \A o \in BlocksOf(body) : o.option \in BlockOptions
  BY DEF BlocksOf, BlockOptions, WithOption
<1>12. {o \in Range(options) : o.option \in BlockOptions} = BlocksOf(body)
  <2>1. \A o \in {[option |-> "--lbs", value |-> body.lbs], [option |-> "--fps", value |-> body.fps],
                  [option |-> "--json-report", value |-> "report"]} : o.option \notin BlockOptions
    BY DEF BlockOptions
  <2> QED BY <1>5, <1>11, <2>1
<1> QED BY <1>2, <1>7, <1>9, <1>10, <1>12 DEF args

-----------------------------------------------------------------------------
(***************************************************************************)
(* The rules a starting engine sets.                                        *)
(***************************************************************************)

\* A store as the options of a command line leave it.
Store(ips, apps, domains, patterns, ports) ==
  [ips |-> ips, apps |-> apps, domains |-> domains, patterns |-> patterns, ports |-> ports]

DomainWords == STRING \cup {"report"}

IsStore(store) ==
  \E ips, apps, domains, patterns, ports :
    /\ store = Store(ips, apps, domains, patterns, ports)
    /\ patterns \in Seq(DomainWords)

\* The rules of four tables.
AllRules(ips, apps, domains, ports) ==
  {<<"IP", ip>> : ip \in ips} \cup {<<"APP", app>> : app \in apps}
    \cup {<<"DOMAIN", d>> : d \in domains} \cup {<<"PORT", port>> : port \in ports}

\* The patterns are rules as the domains are.
LEMMA RulesOfStore ==
  ASSUME NEW ips, NEW apps, NEW domains, NEW patterns, NEW ports
  PROVE  RulesIn(Store(ips, apps, domains, patterns, ports)) =
           AllRules(ips, apps, domains \cup Range(patterns), ports)
BY DEF RulesIn, AllRules, Store

\* What an option adds to the rules; an application nobody knows adds nothing.
RuleOf(o) ==
  IF o.option = "--block-ip" THEN {<<"IP", ParseIP(Octets[o.value])>>}
  ELSE IF o.option = "--block-app" THEN {<<"APP", app>> : app \in {o.value} \cap AppNames}
  ELSE {<<"DOMAIN", o.value>>}

\* Every option adds its rule and leaves the others.
LEMMA OneRuleMore ==
  ASSUME NEW store, IsStore(store), NEW o \in OptionType, o.option \in BlockOptions
  PROVE  /\ IsStore(BlockRule(store, o))
         /\ RulesIn(BlockRule(store, o)) = RulesIn(store) \cup RuleOf(o)
<1>1. PICK i, a, d, p, q :
        /\ store = Store(i, a, d, p, q)
        /\ p \in Seq(DomainWords)
  BY DEF IsStore
<1>2. o.value \in DomainWords
  BY DEF OptionType, DomainWords
<1>3. /\ store.ips = i /\ store.apps = a /\ store.domains = d /\ store.patterns = p
  BY <1>1 DEF Store
<1>4. RulesIn(store) = AllRules(i, a, d \cup Range(p), q)
  BY <1>1, RulesOfStore
<1>i. \A x : [store EXCEPT !.ips = x] = Store(x, a, d, p, q)
  BY <1>1 DEF Store
<1>a. \A x : [store EXCEPT !.apps = x] = Store(i, x, d, p, q)
  BY <1>1 DEF Store
<1>d. \A x : [store EXCEPT !.domains = x] = Store(i, a, x, p, q)
  BY <1>1 DEF Store
<1>p. \A x : [store EXCEPT !.patterns = x] = Store(i, a, d, x, q)
  BY <1>1 DEF Store
<1> DEFINE after == BlockRule(store, o)
           v == o.value
<1>5. CASE o.option = "--block-ip"
  <2> DEFINE ip == ParseIP(Octets[v])
             x == i \cup {ip}
  <2>1. after = [store EXCEPT !.ips = x]
    BY <1>3, <1>5 DEF BlockRule, BlockIP
  <2> HIDE DEF x, ip, after
  <2>2. after = Store(x, a, d, p, q)
    BY <1>i, <2>1
  <2>3. IsStore(after)
    BY <1>1, <2>2 DEF IsStore
  <2>4. RulesIn(after) = AllRules(x, a, d \cup Range(p), q)
    BY <1>1, <2>2, RulesOfStore
  <2>5. RulesIn(after) = RulesIn(store) \cup {<<"IP", ip>>}
    BY <1>4, <2>4 DEF AllRules, x
  <2> QED BY <1>5, <2>3, <2>5 DEF after, ip, RuleOf
<1>6. CASE o.option = "--block-app"
  <2> DEFINE x == a \cup ({v} \cap AppNames)
  <2>1. after = [store EXCEPT !.apps = x]
    BY <1>3, <1>6 DEF BlockRule, BlockApp
  <2> HIDE DEF x, v, after
  <2>2. after = Store(i, x, d, p, q)
    BY <1>a, <2>1
  <2>3. IsStore(after)
    BY <1>1, <2>2 DEF IsStore
  <2>4. RulesIn(after) = AllRules(i, x, d \cup Range(p), q)
    BY <1>1, <2>2, RulesOfStore
  <2>5. RulesIn(after) = RulesIn(store) \cup {<<"APP", app>> : app \in {v} \cap AppNames}
    BY <1>4, <2>4 DEF AllRules, x
  <2> QED BY <1>6, <2>3, <2>5 DEF after, v, RuleOf
<1>7. CASE o.option \notin {"--block-ip", "--block-app"} /\ v \in Wildcards
  <2> DEFINE x == Append(p, v)
  <2>1. after = [store EXCEPT !.patterns = x]
    BY <1>3, <1>7 DEF BlockRule, BlockDomain
  <2>2. x \in Seq(DomainWords)
    BY <1>1, <1>2
  <2>3. Range(x) = Range(p) \cup {v}
    <3>1. x = p \o <<v>> /\ <<v>> \in Seq(DomainWords)
      BY <1>1, <1>2
    <3>2. Range(<<v>>) = {v}
      BY DEF Range
    <3>3. \A s, t \in Seq(DomainWords) : Range(s \o t) = Range(s) \cup Range(t)
      BY RangeConcatenation
    <3> HIDE DEF x
    <3> QED BY <1>1, <3>1, <3>2, <3>3
  <2> HIDE DEF x, v, after
  <2>4. after = Store(i, a, d, x, q)
    BY <1>p, <2>1
  <2>5. IsStore(after)
    BY <1>1, <2>2, <2>4 DEF IsStore
  <2>6. RulesIn(after) = AllRules(i, a, d \cup Range(x), q)
    BY <1>1, <2>2, <2>4, RulesOfStore
  <2>7. RulesIn(after) = RulesIn(store) \cup {<<"DOMAIN", v>>}
    BY <1>4, <2>3, <2>6 DEF AllRules
  <2> QED BY <1>7, <2>5, <2>7 DEF after, v, RuleOf
<1>8. CASE o.option \notin {"--block-ip", "--block-app"} /\ v \notin Wildcards
  <2> DEFINE x == d \cup {v}
  <2>1. after = [store EXCEPT !.domains = x]
    BY <1>3, <1>8 DEF BlockRule, BlockDomain
  <2> HIDE DEF x, v, after
  <2>3. after = Store(i, a, x, p, q)
    BY <1>d, <2>1
  <2>4. IsStore(after)
    BY <1>1, <2>3 DEF IsStore
  <2>5. RulesIn(after) = AllRules(i, a, x \cup Range(p), q)
    BY <1>1, <2>3, RulesOfStore
  <2>6. RulesIn(after) = RulesIn(store) \cup {<<"DOMAIN", v>>}
    BY <1>4, <2>5 DEF AllRules, x
  <2> QED BY <1>8, <2>4, <2>6 DEF after, v, RuleOf
<1> QED BY <1>5, <1>6, <1>7, <1>8

\* What the first n of some options add.
RulesOfFirst(blocks, n) == UNION {RuleOf(blocks[j]) : j \in 1..n}

\* The options of a command line set their rules and no other, one after the other.
LEMMA RulesAdded ==
  ASSUME NEW blocks \in Seq(OptionType), \A o \in Range(blocks) : o.option \in BlockOptions
  PROVE  \A n \in 0..Len(blocks) :
           LET store == RulesSet(EmptyStore, blocks)[n]
           IN IsStore(store) /\ RulesIn(store) = RulesOfFirst(blocks, n)
<1> DEFINE After(n) == RulesSet(EmptyStore, blocks)[n]
           Good(n) == IsStore(After(n)) /\ RulesIn(After(n)) = RulesOfFirst(blocks, n)
           S == {n \in 0..Len(blocks) : ~Good(n)}
<1>1. Len(blocks) \in Nat
  OBVIOUS
<1>2. \A n \in 1..Len(blocks) : blocks[n] \in OptionType /\ blocks[n].option \in BlockOptions
  <2>1. \A n \in 1..Len(blocks) : blocks[n] \in OptionType /\ blocks[n] \in Range(blocks)
    BY DEF Range
  <2> QED BY <2>1
<1>3. After(0) = EmptyStore
  BY <1>1, RulesUnfold
<1>4. \A n \in 1..Len(blocks) : After(n) = BlockRule(After(n - 1), blocks[n])
  BY <1>1, RulesUnfold
<1> SUFFICES ASSUME S # {} PROVE FALSE
  OBVIOUS
<1> HIDE DEF After
<1>5. S \in SUBSET Nat
  BY <1>1
<1>6. PICK n \in S : \A k \in S : n <= k
  BY <1>5, LeastMember
<1>7. n \in 0..Len(blocks) /\ ~Good(n)
  OBVIOUS
<1>8. Good(0)
  <2>1. EmptyStore = Store({}, {}, {}, <<>>, {})
    BY DEF EmptyStore, Store
  <2>2. <<>> \in Seq(DomainWords)
    OBVIOUS
  <2>3. IsStore(EmptyStore)
    BY <2>1, <2>2 DEF IsStore
  <2>4. RulesIn(EmptyStore) = AllRules({}, {}, {} \cup Range(<<>>), {})
    BY <2>1, RulesOfStore
  <2>5. Range(<<>>) = {}
    BY DEF Range
  <2>6. RulesIn(EmptyStore) = {}
    BY <2>4, <2>5 DEF AllRules
  <2>7. RulesOfFirst(blocks, 0) = {}
    BY DEF RulesOfFirst
  <2> QED BY <1>3, <2>3, <2>6, <2>7
<1>9. n \in 1..Len(blocks) /\ n - 1 \in 0..Len(blocks) /\ ~(n <= n - 1) /\ n \in Nat
  <2>1. n # 0
    BY <1>7, <1>8
  <2> QED BY <1>1, <1>7, <2>1
<1>10. Good(n - 1)
  BY <1>6, <1>9
<1> HIDE DEF S
<1> DEFINE before == After(n - 1)
           o == blocks[n]
<1>11. IsStore(before) /\ RulesIn(before) = RulesOfFirst(blocks, n - 1)
  BY <1>10
<1>12. After(n) = BlockRule(before, o)
  BY <1>4, <1>9
<1>13. o \in OptionType /\ o.option \in BlockOptions
  BY <1>2, <1>9
<1> HIDE DEF before
<1>14. IsStore(BlockRule(before, o)) /\ RulesIn(BlockRule(before, o)) = RulesIn(before) \cup RuleOf(o)
  BY <1>11, <1>13, OneRuleMore
<1>15. RulesOfFirst(blocks, n) = RulesOfFirst(blocks, n - 1) \cup RuleOf(o)
  <2>1. 1..n = (1..(n - 1)) \cup {n}
    BY <1>9
  <2> QED BY <2>1 DEF RulesOfFirst
<1> QED BY <1>7, <1>11, <1>12, <1>14, <1>15

\* The rules of an engine are those its request names, whatever its words look like
\* and whatever order they come in.
LEMMA RequestGetsItsRules ==
  ASSUME NEW body, Valid(body)
  PROVE  RulesIn(BlockAll(EmptyStore, ParseOptions(BuildCommand(body)))) = RequestedBy(body)
<1> DEFINE blocks == ParseOptions(BuildCommand(body)).blocks
           n == Len(blocks)
<1>1. blocks \in Seq(OptionType) /\ Range(blocks) = BlocksOf(body)
  BY RequestRead
<1>2. BlockAll(EmptyStore, ParseOptions(BuildCommand(body))) = RulesSet(EmptyStore, blocks)[n]
  BY DEF BlockAll
<1> HIDE DEF blocks
<1>3. \A o \in BlocksOf(body) : o.option \in BlockOptions
  BY DEF BlocksOf, BlockOptions, WithOption
<1>4. n \in Nat /\ n \in 0..Len(blocks)
  BY <1>1
<1>5. RulesIn(RulesSet(EmptyStore, blocks)[n]) = RulesOfFirst(blocks, n)
  BY <1>1, <1>3, <1>4, RulesAdded
<1>6. RulesOfFirst(blocks, n) = UNION {RuleOf(o) : o \in BlocksOf(body)}
  <2>1. Range(blocks) = {blocks[j] : j \in 1..n}
    BY <1>1, RangeEquality
  <2> QED BY <1>1, <2>1 DEF RulesOfFirst
<1> DEFINE A == WithOption("--block-app", body.blockApps)
           I == WithOption("--block-ip", body.blockIps)
           D == WithOption("--block-domain", body.blockDomains)
<1>7. UNION {RuleOf(o) : o \in I} = {<<"IP", ParseIP(Octets[ip])>> : ip \in Values(body.blockIps)}
  <2>1. \A v : RuleOf([option |-> "--block-ip", value |-> v]) = {<<"IP", ParseIP(Octets[v])>>}
    BY DEF RuleOf
  <2>2. {RuleOf(o) : o \in I} =
          {RuleOf([option |-> "--block-ip", value |-> v]) : v \in Values(body.blockIps)}
    BY DEF WithOption
  <2>3. {RuleOf(o) : o \in I} = {{<<"IP", ParseIP(Octets[v])>>} : v \in Values(body.blockIps)}
    BY <2>1, <2>2
  <2> HIDE DEF I
  <2> QED BY <2>3
<1>8. UNION {RuleOf(o) : o \in A} = {<<"APP", app>> : app \in Values(body.blockApps) \cap AppNames}
  <2>1. \A v : RuleOf([option |-> "--block-app", value |-> v]) =
                 {<<"APP", app>> : app \in {v} \cap AppNames}
    BY DEF RuleOf
  <2> DEFINE Rule(v) == RuleOf([option |-> "--block-app", value |-> v])
  <2>2. ASSUME NEW x
        PROVE  (\E o \in A : x \in RuleOf(o)) <=> \E v \in Values(body.blockApps) : x \in Rule(v)
    BY DEF WithOption
  <2> HIDE DEF A, Rule
  <2>3. ASSUME NEW v, NEW x
        PROVE  x \in Rule(v) <=> v \in AppNames /\ x = <<"APP", v>>
    <3>1. Rule(v) = {<<"APP", app>> : app \in {v} \cap AppNames}
      BY <2>1 DEF Rule
    <3> QED BY <3>1
  <2>4. ASSUME NEW x
        PROVE  x \in UNION {RuleOf(o) : o \in A} <=>
                 \E v \in Values(body.blockApps) : v \in AppNames /\ x = <<"APP", v>>
    <3>1. x \in UNION {RuleOf(o) : o \in A} <=> \E o \in A : x \in RuleOf(o)
      OBVIOUS
    <3> QED BY <2>2, <2>3, <3>1
  <2> QED BY <2>4
<1>9. UNION {RuleOf(o) : o \in D} = {<<"DOMAIN", domain>> : domain \in Values(body.blockDomains)}
  <2>1. \A v : RuleOf([option |-> "--block-domain", value |-> v]) = {<<"DOMAIN", v>>}
    BY DEF RuleOf
  <2>2. {RuleOf(o) : o \in D} =
          {RuleOf([option |-> "--block-domain", value |-> v]) : v \in Values(body.blockDomains)}
    BY DEF WithOption
  <2>3. {RuleOf(o) : o \in D} = {{<<"DOMAIN", v>>} : v \in Values(body.blockDomains)}
    BY <2>1, <2>2
  <2> HIDE DEF D
  <2> QED BY <2>3
<1> HIDE DEF A, I, D
<1>10. BlocksOf(body) = A \cup I \cup D
  BY DEF BlocksOf, A, I, D
<1>11. UNION {RuleOf(o) : o \in BlocksOf(body)} =
         (UNION {RuleOf(o) : o \in A}) \cup (UNION {RuleOf(o) : o \in I}) \cup (UNION {RuleOf(o) : o \in D})
  BY <1>10
<1>12. RulesOfFirst(blocks, n) = RequestedBy(body)
  BY <1>6, <1>7, <1>8, <1>9, <1>11 DEF RequestedBy
<1> QED BY <1>2, <1>5, <1>12

\* Every request starts an engine, and that engine has the rules the request names.
LEMMA RequestsAreRead ==
  ASSUME NEW r \in Requests
  PROVE  ConfigOf[r].exit = "none" /\ RulesIn(AskedFor[r]) = RequestedBy(BodyOf[r])
<1>1. Valid(BodyOf[r])
  BY BodiesAssumption DEF Valid, BodyType
<1>2. ConfigOf[r] = ParseOptions(BuildCommand(BodyOf[r]))
  BY DEF ConfigOf
<1>3. AskedFor[r] = BlockAll(EmptyStore, ConfigOf[r])
  BY DEF AskedFor
<1> QED BY <1>1, <1>2, <1>3, RequestRead, RequestGetsItsRules

-----------------------------------------------------------------------------
(***************************************************************************)
(* The invariant.                                                           *)
(***************************************************************************)

Messages == {"", "completed", "IOException", "timedOut", "failed"}

AnswerType == [status : {0, 200, 500}, message : Messages, report : Reports, console : SUBSET Requests]

\* The file is missing, or somebody or nobody wrote either end of it.
FileType == {NoReport} \cup [first : Writers \cup {Nobody}, last : Writers \cup {Nobody}]

\* TypeOK with what it leaves open: what an answer and a file are, and that only an
\* engine whose request was answered without it has been killed.
Types ==
  /\ thread \in [Requests -> {"unsent", "start", "wait", "log", "check", "read", "answered"}]
  /\ completed \in [Requests -> BOOLEAN]
  /\ console \in [Requests -> SUBSET Requests]
  /\ response \in [Requests -> AnswerType]
  /\ process \in [Requests -> {"none", "processing", "opened", "halfWritten",
                            "exit0", "unflushed", "exit1", "dead"}]
  /\ DOMAIN rules = Requests /\ rules = [r \in Requests |-> rules[r]]
  /\ log \subseteq Requests /\ report \in FileType
  /\ alone \subseteq Requests /\ killed \subseteq Requests
  /\ shown \in Reports \cup {"sample"} /\ pending \in FromDashboard \cup {Nobody}
  /\ loading \in BOOLEAN

AnswerOK(r) ==
  /\ (response[r].status # 0) <=> thread[r] = "answered"
  /\ (response[r].status = 200) <=> response[r].message = "completed"
  /\ thread[r] \in {"unsent", "start"} => process[r] = "none"
  /\ r \in killed => ~completed[r] /\ thread[r] = "answered"

TInv == Types /\ \A r \in Requests : AnswerOK(r)

\* The service has started the engine of a request and not yet answered.
Busy(r) == thread[r] \in {"wait", "log", "check", "read"}

\* An engine that was started has the rules of its request, and what is read of or
\* answered with success is one that ended with status 0.
OwnEngine(r) ==
  /\ Busy(r) \/ response[r].status = 200 => rules[r] = AskedFor[r]
  /\ thread[r] = "read" \/ response[r].status = 200 => process[r] \in {"exit0", "unflushed"}

\* While no other engine runs, the report holds what the engine has written so far and
\* the log nothing of anybody else: a start that fails may empty it.
OwnFiles(r) ==
  /\ Running \subseteq {r} /\ log \subseteq {r}
  /\ process[r] = "opened" => report = Empty
  /\ process[r] = "halfWritten" => report = [first |-> r, last |-> Nobody]
  /\ process[r] = "exit0" => report = [first |-> r, last |-> r]
  /\ process[r] = "unflushed" => report \in {Empty, [first |-> r, last |-> Nobody]}
  /\ thread[r] \in {"check", "read"} => console[r] \subseteq {r}

OwnAnswer(r) ==
  /\ \/ process[r] = "exit0" /\ response[r].report = r
     \/ process[r] = "unflushed" /\ response[r].report = Nobody
  /\ response[r].console \subseteq {r}

Alone(r) ==
  /\ thread[r] \notin {"unsent", "start"}
  /\ Busy(r) => OwnFiles(r)
  /\ response[r].status = 200 => OwnAnswer(r)

OInv == (\A r \in Requests : OwnEngine(r)) /\ (\A r \in alone : Alone(r))
-----------------------------------------------------------------------------
(***************************************************************************)
(* Every step keeps the types.                                              *)
(***************************************************************************)

\* The server has just started.
LEMMA InitTypes == Init => TInv
<1> SUFFICES ASSUME Init PROVE TInv
  OBVIOUS
<1>1. NoAnswer \in AnswerType /\ NoAnswer.status = 0 /\ NoAnswer.message = ""
  BY DEF NoAnswer, AnswerType, Messages, Reports
<1>2. NoReport \in FileType /\ [first |-> Earlier, last |-> Earlier] \in FileType
  BY DEF FileType, Writers
<1>3. Types
  BY <1>1, <1>2 DEF Init, Types
<1>4. ASSUME NEW r \in Requests
      PROVE  AnswerOK(r)
  <2>1. response[r] = NoAnswer /\ thread[r] = "unsent" /\ process[r] = "none" /\ r \notin killed
    BY DEF Init
  <2>2. 0 # 200
    OBVIOUS
  <2> QED BY <1>1, <2>1, <2>2 DEF AnswerOK
<1> QED BY <1>3, <1>4 DEF TInv

ThreadStates == {"unsent", "start", "wait", "log", "check", "read", "answered"}

\* One value of a function changes.
LEMMA OneChanges ==
  ASSUME NEW S, NEW T, NEW f \in [S -> T], NEW r \in S, NEW v \in T, NEW g, g = [f EXCEPT ![r] = v]
  PROVE  g \in [S -> T] /\ g[r] = v /\ \A s \in S : s # r => g[s] = f[s]
OBVIOUS

\* A thread goes somewhere, the others stay.
Moves(r, to) ==
  thread' \in [Requests -> ThreadStates] /\ thread'[r] = to
    /\ \A s \in Requests : s # r => thread'[s] = thread[s]

\* Goto moves a thread.
LEMMA GotoMoves ==
  ASSUME TInv, NEW r \in Requests, NEW to \in ThreadStates, Goto(r, to)
  PROVE  Moves(r, to)
<1>1. thread \in [Requests -> ThreadStates] /\ thread' = [thread EXCEPT ![r] = to]
  BY DEF TInv, Types, ThreadStates, Goto
<1> QED BY <1>1 DEF Moves

\* A request has its answer, the others what they had.
Answers(r, status, message, x, c) ==
  /\ response' \in [Requests -> AnswerType]
  /\ response'[r].status = status /\ response'[r].message = message
  /\ response'[r].report = x /\ response'[r].console = c
  /\ \A s \in Requests : s # r => response'[s] = response[s]

Gives(r, status, message, x, c) ==
  response' = [response EXCEPT ![r] =
                 [status |-> status, message |-> message, report |-> x, console |-> c]]

\* Then the request has that answer.
LEMMA AnswerIsGiven ==
  ASSUME TInv, NEW r \in Requests, NEW status \in {200, 500}, NEW message \in Messages,
         NEW x \in Reports, NEW c \in SUBSET Requests, Gives(r, status, message, x, c)
  PROVE  Answers(r, status, message, x, c)
<1> DEFINE a == [status |-> status, message |-> message, report |-> x, console |-> c]
<1>1. a \in AnswerType /\ a.status = status /\ a.message = message /\ a.report = x /\ a.console = c
  BY DEF AnswerType
<1> HIDE DEF a
<1>2. response' = [response EXCEPT ![r] = a]
  BY DEF a, Gives
<1>3. response \in [Requests -> AnswerType]
  BY DEF TInv, Types
<1>4. response' \in [Requests -> AnswerType]
  BY <1>1, <1>2, <1>3
<1>5. response'[r] = a
  BY <1>2, <1>3
<1>6. \A s \in Requests : s # r => response'[s] = response[s]
  BY <1>2, <1>3
<1> QED BY <1>1, <1>4, <1>5, <1>6 DEF Answers

\* The words beside the requests are told apart, from them and from each other.
LEMMA WordsApart ==
  /\ Earlier \notin Requests /\ Nobody \notin Requests /\ "absent" \notin Requests
  /\ "mixed" \notin Requests /\ "IOException" \notin Requests
  /\ NoReport # Empty
  /\ \A r \in Requests : r # Nobody /\ r # "absent" /\ r # "IOException" /\ r # "mixed"
<1>1. NoReport # Empty
  BY DEF NoReport, Empty, Nobody
<1> QED BY <1>1, WritersAssumption

\* What is read of the report is a report, or the reading fails.
LEMMA ReadableReports ==
  ASSUME TInv
  PROVE  Readable \subseteq Reports \cup {"IOException"}
<1>1. report \in FileType
  BY DEF TInv, Types
<1>2. CASE report = NoReport
  BY <1>2, WordsApart DEF Readable
<1>3. CASE report = Empty
  <2>1. Readable = {Nobody}
    BY <1>3, WordsApart DEF Readable
  <2> QED BY <2>1 DEF Reports
<1>4. CASE report # NoReport /\ report # Empty /\ report.first = report.last
  <2>1. Readable = {report.first}
    BY <1>4 DEF Readable
  <2>2. report.first \in Writers \cup {Nobody}
    BY <1>1, <1>4 DEF FileType
  <2> QED BY <2>1, <2>2 DEF Reports
<1>5. CASE report # NoReport /\ report # Empty /\ report.first # report.last
  <2>1. Readable = IF Nobody \in {report.first, report.last} THEN {"IOException"}
                   ELSE {"IOException", "mixed", report.first}
    BY <1>5 DEF Readable
  <2>2. report.first \in Writers \cup {Nobody}
    BY <1>1, <1>5 DEF FileType
  <2> QED BY <2>1, <2>2 DEF Reports
<1> QED BY <1>2, <1>3, <1>4, <1>5

\* A thread moves on without an answer, the engines stay where they are.
LEMMA MovesOn ==
  ASSUME TInv, NEW r \in Requests, thread[r] # "answered",
         NEW to \in {"start", "wait", "log", "check", "read"}, Moves(r, to),
         to = "start" => thread[r] = "unsent", process' = process, response' = response,
         killed' = killed, \A s \in Requests : s # r => completed'[s] = completed[s]
  PROVE  \A s \in Requests : AnswerOK(s)'
<1> SUFFICES ASSUME NEW s \in Requests
             PROVE  AnswerOK(s)'
  OBVIOUS
<1>1. AnswerOK(s) /\ AnswerOK(r)
  BY DEF TInv
<1>2. CASE s = r
  <2>1. thread'[s] = to /\ thread'[s] # "answered" /\ thread[s] # "answered" /\ s \notin killed'
    BY <1>1, <1>2 DEF Moves, AnswerOK
  <2>2. thread'[s] \in {"unsent", "start"} => process'[s] = "none"
    BY <1>1, <1>2, <2>1 DEF AnswerOK
  <2> QED BY <1>1, <2>1, <2>2 DEF AnswerOK
<1>3. CASE s # r
  <2>1. thread'[s] = thread[s] /\ completed'[s] = completed[s]
    BY <1>3 DEF Moves
  <2> QED BY <1>1, <2>1 DEF AnswerOK
<1> QED BY <1>2, <1>3

\* A request is answered, the engines stay where they are.
LEMMA IsAnswered ==
  ASSUME TInv, NEW r \in Requests, Moves(r, "answered"),
         NEW status \in {200, 500}, NEW message, NEW x, NEW c, Answers(r, status, message, x, c),
         status = 200 <=> message = "completed",
         process' = process, completed' = completed,
         killed' \subseteq killed \cup {r}, r \in killed' => ~completed[r]
  PROVE  \A s \in Requests : AnswerOK(s)'
<1> SUFFICES ASSUME NEW s \in Requests
             PROVE  AnswerOK(s)'
  OBVIOUS
<1>1. AnswerOK(s)
  BY DEF TInv
<1>2. CASE s = r
  <2>1. thread'[s] = "answered" /\ response'[s].status = status /\ response'[s].message = message
    BY <1>2 DEF Moves, Answers
  <2>2. 200 # 0 /\ 500 # 0
    OBVIOUS
  <2>3. status = 200 \/ status = 500
    OBVIOUS
  <2> QED BY <1>2, <2>1, <2>2, <2>3 DEF AnswerOK
<1>3. CASE s # r
  <2>1. thread'[s] = thread[s] /\ response'[s] = response[s]
    BY <1>3 DEF Moves, Answers
  <2>2. s \in killed' => s \in killed
    BY <1>3
  <2> QED BY <1>1, <2>1, <2>2 DEF AnswerOK
<1> QED BY <1>2, <1>3

\* An engine goes on, once its request is under way.
LEMMA EngineGoesOn ==
  ASSUME TInv, NEW r \in Requests, process[r] # "none",
         \A s \in Requests : s # r => process'[s] = process[s],
         UNCHANGED <<serviceVars, killed>>
  PROVE  \A s \in Requests : AnswerOK(s)'
<1> SUFFICES ASSUME NEW s \in Requests
             PROVE  AnswerOK(s)'
  OBVIOUS
<1>1. AnswerOK(s)
  BY DEF TInv
<1>2. thread' = thread /\ response' = response /\ completed' = completed /\ killed' = killed
  BY DEF serviceVars
<1>3. thread[s] \in {"unsent", "start"} => process'[s] = "none"
  BY <1>1 DEF AnswerOK
<1> QED BY <1>1, <1>2, <1>3 DEF AnswerOK

\* The service: an engine is started, or the request is answered that it was not.
LEMMA StartTypes ==
  ASSUME TInv, NEW r \in Requests, StartEngine(r)
  PROVE  TInv'
<1>1. thread[r] = "start" /\ ConfigOf[r].exit = "none" /\ thread[r] # "answered"
  BY RequestsAreRead DEF StartEngine
<1>2. AnswerOK(r) /\ process[r] = "none" /\ r \notin killed
  BY <1>1 DEF TInv, AnswerOK
<1> DEFINE others == {s \in Requests : thread[s] \in {"wait", "log", "check", "read"}}
<1>3. ASSUME Goto(r, "wait"), process' = [process EXCEPT ![r] = "processing"],
             rules' = [rules EXCEPT ![r] = AskedFor[r]], log' = {r},
             alone' = (alone \ others) \cup (IF Running = {} THEN {r} ELSE {}),
             UNCHANGED <<completed, console, response, killed, report, pageVars>>
      PROVE  TInv'
  <2>1. Moves(r, "wait")
    BY <1>3, GotoMoves DEF ThreadStates
  <2>2. Types'
    BY <1>3, <2>1 DEF TInv, Types, Moves, ThreadStates, pageVars
  <2>3. ASSUME NEW s \in Requests PROVE AnswerOK(s)'
    <3>1. AnswerOK(s)
      BY DEF TInv
    <3>2. thread'[r] = "wait" /\ (s # r => thread'[s] = thread[s])
      BY <2>1 DEF Moves
    <3>3. s # r => process'[s] = process[s]
      BY <1>3 DEF TInv, Types
    <3>4. response' = response /\ killed' = killed /\ completed' = completed
      BY <1>3
    <3> QED BY <1>1, <1>2, <3>1, <3>2, <3>3, <3>4 DEF AnswerOK
  <2> QED BY <2>2, <2>3 DEF TInv
<1>4. ASSUME Answer(r, 500, "IOException", Nobody), log' \in {log, {}},
             UNCHANGED <<process, rules, killed, report, alone, pageVars>>
      PROVE  TInv'
  <2>1. Moves(r, "answered")
    BY <1>4, GotoMoves DEF ThreadStates, Answer
  <2>2. "IOException" \in Messages /\ Nobody \in Reports /\ console[r] \in SUBSET Requests
    BY DEF Messages, Reports, TInv, Types
  <2> Gives(r, 500, "IOException", Nobody, console[r])
    BY <1>4 DEF Answer, Gives
  <2>3. Answers(r, 500, "IOException", Nobody, console[r])
    BY <2>2, AnswerIsGiven
  <2>4. completed' = completed /\ console' = console
    BY <1>4 DEF Answer
  <2>5. Types'
    BY <1>4, <2>1, <2>3, <2>4 DEF TInv, Types, Moves, ThreadStates, Answers, pageVars
  <2>6. process' = process /\ killed' = killed
    BY <1>4
  <2>7. \A s \in Requests : AnswerOK(s)'
    BY <1>2, <2>1, <2>3, <2>4, <2>6, IsAnswered
  <2> QED BY <2>5, <2>7 DEF TInv
<1> QED BY <1>1, <1>3, <1>4 DEF StartEngine

\* waitFor tells whether the engine has ended.
LEMMA WaitTypes ==
  ASSUME TInv, NEW r \in Requests, WaitFor(r)
  PROVE  TInv'
<1>1. Moves(r, "log") /\ thread[r] = "wait"
  BY GotoMoves DEF WaitFor, ThreadStates
<1>2. UNCHANGED <<console, response, engineVars, alone, pageVars>>
  BY DEF WaitFor
<1>3. completed' = [completed EXCEPT ![r] = r \notin Running]
  BY DEF WaitFor
<1>4. completed' \in [Requests -> BOOLEAN] /\ \A s \in Requests : s # r => completed'[s] = completed[s]
  BY <1>3 DEF TInv, Types
<1>5. Types'
  BY <1>1, <1>2, <1>4 DEF TInv, Types, Moves, ThreadStates, engineVars, pageVars
<1>6. \A s \in Requests : AnswerOK(s)'
  BY <1>1, <1>2, <1>4, MovesOn DEF engineVars
<1> QED BY <1>5, <1>6 DEF TInv

\* An answer given while the engines stay where they are.
LEMMA AnswerTypes ==
  ASSUME TInv, NEW r \in Requests, NEW status \in {200, 500}, NEW message \in Messages,
         NEW x \in Reports, status = 200 <=> message = "completed", thread[r] # "answered",
         Answer(r, status, message, x), UNCHANGED <<engineVars, alone, pageVars>>
  PROVE  TInv'
<1>1. Moves(r, "answered")
  BY GotoMoves DEF ThreadStates, Answer
<1>2. console[r] \in SUBSET Requests
  BY DEF TInv, Types
<1> Gives(r, status, message, x, console[r])
  BY DEF Answer, Gives
<1>3. Answers(r, status, message, x, console[r])
  BY <1>2, AnswerIsGiven
<1>4. completed' = completed /\ console' = console /\ process' = process /\ killed' = killed
  BY DEF Answer, engineVars
<1>5. Types'
  BY <1>1, <1>3, <1>4 DEF TInv, Types, Moves, ThreadStates, Answers, engineVars, pageVars
<1>6. r \notin killed
  BY DEF TInv, AnswerOK
<1>7. \A s \in Requests : AnswerOK(s)'
  BY <1>1, <1>3, <1>4, <1>6, IsAnswered
<1> QED BY <1>5, <1>7 DEF TInv

\* After a timeout the engine is told to die and the request is answered.
LEMMA LogTypes ==
  ASSUME TInv, NEW r \in Requests, ReadLog(r)
  PROVE  TInv'
<1>1. thread[r] = "log" /\ UNCHANGED <<process, rules, report, log, alone, pageVars>>
  BY DEF ReadLog
<1>2. AnswerOK(r) /\ r \notin killed
  BY <1>1 DEF TInv, AnswerOK
<1>3. ASSUME ~completed[r], killed' = killed \cup {r}, Goto(r, "answered"),
             response' = [response EXCEPT ![r] =
               [status |-> 500, message |-> "timedOut", report |-> Nobody, console |-> log]],
             UNCHANGED <<completed, console>>
      PROVE  TInv'
  <2>1. Moves(r, "answered")
    BY <1>3, GotoMoves DEF ThreadStates
  <2>2. "timedOut" \in Messages /\ Nobody \in Reports /\ log \in SUBSET Requests
    BY DEF Messages, Reports, TInv, Types
  <2> Gives(r, 500, "timedOut", Nobody, log)
    BY <1>3 DEF Gives
  <2>3. Answers(r, 500, "timedOut", Nobody, log)
    BY <2>2, AnswerIsGiven
  <2>4. Types'
    BY <1>1, <1>3, <2>1, <2>3 DEF TInv, Types, Moves, ThreadStates, Answers, pageVars
  <2>5. \A s \in Requests : AnswerOK(s)'
    BY <1>1, <1>3, <2>1, <2>3, IsAnswered
  <2> QED BY <2>4, <2>5 DEF TInv
<1>4. ASSUME Goto(r, "check"), console' = [console EXCEPT ![r] = log],
             UNCHANGED <<completed, response, killed>>
      PROVE  TInv'
  <2>1. Moves(r, "check")
    BY <1>4, GotoMoves DEF ThreadStates
  <2>2. console' \in [Requests -> SUBSET Requests]
    BY <1>4 DEF TInv, Types
  <2>3. Types'
    BY <1>1, <1>4, <2>1, <2>2 DEF TInv, Types, Moves, ThreadStates, pageVars
  <2>4. \A s \in Requests : AnswerOK(s)'
    BY <1>1, <1>4, <2>1, MovesOn
  <2> QED BY <2>3, <2>4 DEF TInv
<1>5. ASSUME Answer(r, 500, "IOException", Nobody), UNCHANGED killed
      PROVE  TInv'
  <2>1. "IOException" \in Messages /\ Nobody \in Reports
    BY DEF Messages, Reports
  <2>2. UNCHANGED <<engineVars, alone, pageVars>>
    BY <1>1, <1>5 DEF engineVars
  <2> QED BY <1>1, <1>5, <2>1, <2>2, AnswerTypes
<1> QED BY <1>3, <1>4, <1>5 DEF ReadLog

\* The exit value decides between an answer and the report.
LEMMA CheckTypes ==
  ASSUME TInv, NEW r \in Requests, CheckExit(r)
  PROVE  TInv'
<1>1. thread[r] = "check" /\ UNCHANGED <<engineVars, alone, pageVars>>
  BY DEF CheckExit
<1>2. ASSUME Goto(r, "read"), UNCHANGED <<completed, console, response>>
      PROVE  TInv'
  <2>1. Moves(r, "read")
    BY <1>2, GotoMoves DEF ThreadStates
  <2>2. Types'
    BY <1>1, <1>2, <2>1 DEF TInv, Types, Moves, ThreadStates, engineVars, pageVars
  <2>3. process' = process /\ killed' = killed
    BY <1>1 DEF engineVars
  <2>4. \A s \in Requests : AnswerOK(s)'
    BY <1>1, <1>2, <2>1, <2>3, MovesOn
  <2> QED BY <2>2, <2>4 DEF TInv
<1>3. ASSUME Answer(r, 500, "failed", Nobody)
      PROVE  TInv'
  <2>1. "failed" \in Messages /\ Nobody \in Reports
    BY DEF Messages, Reports
  <2> QED BY <1>1, <1>3, <2>1, AnswerTypes
<1> QED BY <1>2, <1>3 DEF CheckExit

\* Whatever is made of the report, the request is answered.
LEMMA ReportTypes ==
  ASSUME TInv, NEW r \in Requests, ReadReport(r)
  PROVE  TInv'
<1>1. thread[r] = "read" /\ UNCHANGED <<engineVars, alone, pageVars>>
  BY DEF ReadReport
<1>2. PICK x \in Readable :
        IF x = "IOException" THEN Answer(r, 500, x, Nobody) ELSE Answer(r, 200, "completed", x)
  BY DEF ReadReport
<1>3. {"IOException", "completed"} \subseteq Messages /\ Nobody \in Reports
  BY DEF Messages, Reports
<1>4. CASE x = "IOException"
  <2>1. Answer(r, 500, "IOException", Nobody)
    BY <1>2, <1>4
  <2> QED BY <1>1, <1>3, <2>1, AnswerTypes
<1>5. CASE x # "IOException"
  <2>1. x \in Reports
    BY <1>5, ReadableReports
  <2>2. Answer(r, 200, "completed", x)
    BY <1>2, <1>5
  <2> QED BY <1>1, <1>3, <2>1, <2>2, AnswerTypes
<1> QED BY <1>4, <1>5

ProcessStates ==
  {"none", "processing", "opened", "halfWritten", "exit0", "unflushed", "exit1", "dead"}

\* The engine: one that runs goes on or ends.
LEMMA EngineTypes ==
  ASSUME TInv, NEW r \in Requests, process[r] # "none", NEW to \in ProcessStates,
         process' = [process EXCEPT ![r] = to], log' \subseteq log \cup {r}, rules' = rules,
         killed' = killed, report' \in FileType, UNCHANGED <<serviceVars, alone, pageVars>>
  PROVE  TInv'
<1>1. process \in [Requests -> ProcessStates]
  BY DEF TInv, Types, ProcessStates
<1>2. process' \in [Requests -> ProcessStates] /\ \A s \in Requests : s # r => process'[s] = process[s]
  BY <1>1
<1>3. log' \subseteq Requests
  BY DEF TInv, Types
<1>4. Types'
  BY <1>2, <1>3 DEF TInv, Types, ProcessStates, serviceVars, pageVars
<1>5. \A s \in Requests : AnswerOK(s)'
  BY <1>2, EngineGoesOn
<1> QED BY <1>4, <1>5 DEF TInv

\* What an engine writes into the report leaves a file.
LEMMA WrittenFiles ==
  ASSUME NEW r \in Requests, TInv
  PROVE  /\ Empty \in FileType
         /\ report # NoReport => [report EXCEPT !.first = r] \in FileType
         /\ report # NoReport => \A end \in EndAfter(r) :
                /\ [first |-> r, last |-> end] \in FileType
                /\ [first |-> report.first, last |-> end] \in FileType
<1>1. r \in Writers \cup {Nobody}
  BY DEF Writers
<1>2. Empty \in FileType
  BY DEF Empty, FileType
<1>3. ASSUME report # NoReport
      PROVE  /\ [report EXCEPT !.first = r] \in FileType
             /\ \A end \in EndAfter(r) : /\ [first |-> r, last |-> end] \in FileType
                                        /\ [first |-> report.first, last |-> end] \in FileType
  <2>1. PICK f \in Writers \cup {Nobody}, l \in Writers \cup {Nobody} : report = [first |-> f, last |-> l]
    BY <1>3 DEF TInv, Types, FileType
  <2>2. [report EXCEPT !.first = r] = [first |-> r, last |-> l] /\ report.first = f /\ report.last = l
    BY <2>1
  <2>3. EndAfter(r) \subseteq Writers \cup {Nobody}
    BY <1>1, <2>2 DEF EndAfter
  <2> QED BY <1>1, <2>1, <2>2, <2>3 DEF FileType
<1> QED BY <1>2, <1>3

\* An engine that has opened the report has by that made one.
FInv == \A r \in Requests : process[r] \in {"opened", "halfWritten"} => report # NoReport

\* The engines' steps keep the types, as they only go on writing into a file that is there.
LEMMA OpenTypes ==
  ASSUME TInv, NEW r \in Requests, OpenReport(r)
  PROVE  TInv'
<1>1. process[r] = "processing" /\ UNCHANGED <<serviceVars, alone, pageVars>>
  BY DEF OpenReport
<1>2. "processing" # "none" /\ {"opened", "exit1"} \subseteq ProcessStates
  BY DEF ProcessStates
<1>3. CASE EngineGoto(r, "opened") /\ report' = Empty
  BY <1>1, <1>2, <1>3, EngineTypes, WrittenFiles DEF EngineGoto
<1>4. CASE EngineGoto(r, "exit1") /\ UNCHANGED report
  <2>1. report' \in FileType
    BY <1>4 DEF TInv, Types
  <2> QED BY <1>1, <1>2, <1>4, <2>1, EngineTypes DEF EngineGoto
<1> QED BY <1>3, <1>4 DEF OpenReport

\* The report is there while it is written.
LEMMA WriteTypes ==
  ASSUME TInv, FInv, NEW r \in Requests, WriteReport(r)
  PROVE  TInv'
<1>1. process[r] = "opened" /\ UNCHANGED <<serviceVars, alone, pageVars>>
  BY DEF WriteReport
<1>2. "opened" # "none" /\ {"halfWritten", "exit1"} \subseteq ProcessStates
  BY DEF ProcessStates
<1>3. CASE EngineGoto(r, "halfWritten") /\ report' = [report EXCEPT !.first = r]
  <2>1. report # NoReport
    BY <1>1 DEF FInv
  <2>2. report' \in FileType
    BY <1>3, <2>1, WrittenFiles
  <2> QED BY <1>1, <1>2, <1>3, <2>2, EngineTypes DEF EngineGoto
<1>4. CASE EngineGoto(r, "exit1") /\ report' \in {report, [report EXCEPT !.first = r]}
  <2>1. report # NoReport /\ report \in FileType
    BY <1>1 DEF FInv, TInv, Types
  <2>2. report' \in FileType
    BY <1>4, <2>1, WrittenFiles
  <2> QED BY <1>1, <1>2, <1>4, <2>2, EngineTypes DEF EngineGoto
<1> QED BY <1>3, <1>4 DEF WriteReport

\* The report is there when it is closed.
LEMMA CloseTypes ==
  ASSUME TInv, FInv, NEW r \in Requests, CloseReport(r)
  PROVE  TInv'
<1>1. process[r] \in {"opened", "halfWritten"} /\ UNCHANGED <<serviceVars, alone, pageVars>>
  BY DEF CloseReport
<1>2. process[r] # "none" /\ {"exit0", "unflushed"} \subseteq ProcessStates
  BY <1>1 DEF ProcessStates
<1>3. report # NoReport /\ report \in FileType
  BY <1>1 DEF FInv, TInv, Types
<1>4. ASSUME EngineGoto(r, "exit0"), NEW end \in EndAfter(r),
             \/ report' = [first |-> r, last |-> end]
             \/ report' = [first |-> report.first, last |-> end]
      PROVE  TInv'
  <2>1. report' \in FileType
    BY <1>3, <1>4, WrittenFiles
  <2> QED BY <1>1, <1>2, <1>4, <2>1, EngineTypes DEF EngineGoto
<1>5. ASSUME EngineGoto(r, "unflushed"), report' \in {report, [report EXCEPT !.first = r]}
      PROVE  TInv'
  <2>1. report' \in FileType
    BY <1>3, <1>5, WrittenFiles
  <2> QED BY <1>1, <1>2, <1>5, <2>1, EngineTypes DEF EngineGoto
<1> QED BY <1>4, <1>5 DEF CloseReport

\* Only an engine that runs dies.
LEMMA DieTypes ==
  ASSUME TInv, NEW r \in Requests, Die(r)
  PROVE  TInv'
<1>1. /\ r \in Running /\ process' = [process EXCEPT ![r] = "dead"]
      /\ UNCHANGED <<serviceVars, rules, killed, report, log, alone, pageVars>>
  BY DEF Die
<1>2. process[r] # "none" /\ "dead" \in ProcessStates
  BY <1>1 DEF Running, ProcessStates
<1>3. report' \in FileType /\ log' \subseteq log \cup {r}
  BY <1>1 DEF TInv, Types
<1> QED BY <1>1, <1>2, <1>3, EngineTypes

\* The clients send a request once and touch nothing of the service.
LEMMA SendTypes ==
  ASSUME TInv, NEW r \in Requests, Send(r), pending' \in FromDashboard \cup {Nobody}
  PROVE  TInv'
<1>1. thread[r] = "unsent" /\ UNCHANGED <<completed, console, response, engineVars, alone, shown, loading>>
  BY DEF Send
<1>2. Moves(r, "start")
  BY GotoMoves DEF Send, ThreadStates
<1>3. Types'
  BY <1>1, <1>2 DEF TInv, Types, Moves, ThreadStates, engineVars
<1>4. process' = process /\ killed' = killed
  BY <1>1 DEF engineVars
<1>5. \A s \in Requests : AnswerOK(s)'
  BY <1>1, <1>2, <1>4, MovesOn
<1> QED BY <1>3, <1>5 DEF TInv

\* The dashboard shows a report of an answer, or the one it was opened with.
LEMMA ShowTypes ==
  ASSUME TInv, ShowAnswer \/ ShowInitial
  PROVE  TInv'
<1>1. UNCHANGED <<serviceVars, engineVars, alone>>
  BY DEF ShowAnswer, ShowInitial
<1>2. shown' \in Reports \cup {"sample"}
  <2>1. Earlier \in Reports /\ shown \in Reports \cup {"sample"}
    BY DEF Reports, Writers, TInv, Types
  <2>2. CASE ShowAnswer
    <3>1. pending \in Requests
      BY <2>2, RequestsAssumption DEF ShowAnswer, TInv, Types
    <3>2. response[pending].report \in Reports
      BY <3>1 DEF TInv, Types, AnswerType
    <3> QED BY <2>1, <2>2, <3>2 DEF ShowAnswer
  <2>3. CASE ShowInitial
    BY <2>1, <2>3 DEF ShowInitial
  <2> QED BY <2>2, <2>3
<1>3. pending' \in FromDashboard \cup {Nobody} /\ loading' \in BOOLEAN
  BY DEF ShowAnswer, ShowInitial, TInv, Types
<1>4. Types'
  BY <1>1, <1>2, <1>3 DEF TInv, Types, serviceVars, engineVars
<1>5. \A s \in Requests : AnswerOK(s)'
  BY <1>1 DEF TInv, AnswerOK, serviceVars, engineVars
<1> QED BY <1>4, <1>5 DEF TInv

\* Every step keeps the types.
LEMMA StepTypes == TInv /\ FInv /\ [Next]_vars => TInv'
<1> SUFFICES ASSUME TInv, FInv, [Next]_vars
             PROVE  TInv'
  OBVIOUS
<1>1. ASSUME NEW r \in Requests, Service(r) \/ Engine(r) \/ Die(r)
      PROVE  TInv'
  BY <1>1, StartTypes, WaitTypes, LogTypes, CheckTypes, ReportTypes,
     OpenTypes, WriteTypes, CloseTypes, DieTypes DEF Service, Engine
<1>2. ASSUME NEW r \in FromDashboard, RunPreset(r)
      PROVE  TInv'
  <2>1. r \in Requests /\ Send(r) /\ pending' \in FromDashboard \cup {Nobody}
    BY <1>2, RequestsAssumption DEF RunPreset
  <2> QED BY <2>1, SendTypes
<1>3. ASSUME NEW r \in Requests \ FromDashboard, Post(r)
      PROVE  TInv'
  <2>1. Send(r) /\ pending' \in FromDashboard \cup {Nobody}
    BY <1>3 DEF Post, TInv, Types
  <2> QED BY <2>1, SendTypes
<1>4. ASSUME UNCHANGED vars
      PROVE  TInv'
  BY <1>4 DEF vars, serviceVars, engineVars, pageVars, TInv, Types, AnswerOK
<1>5. ASSUME Terminating
      PROVE  TInv'
  BY <1>4, <1>5 DEF Terminating
<1> QED BY <1>1, <1>2, <1>3, <1>4, <1>5, ShowTypes DEF Next

\* The report stays once it is there.
LEMMA ReportStays ==
  ASSUME TInv, FInv, [Next]_vars, report # NoReport
  PROVE  report' # NoReport
<1>1. ASSUME NEW r \in Requests, OpenReport(r) \/ WriteReport(r) \/ CloseReport(r)
      PROVE  report' # NoReport
  <2>1. r # "absent" /\ Nobody # "absent"
    BY WordsApart DEF Nobody
  <2>2. Empty # NoReport
    BY WordsApart
  <2>3. PICK f \in Writers \cup {Nobody}, l \in Writers \cup {Nobody} : report = [first |-> f, last |-> l]
    BY DEF TInv, Types, FileType
  <2>4. f # "absent" /\ "absent" \notin Writers
    BY WordsApart DEF Writers, Earlier, Nobody
  <2>5. [report EXCEPT !.first = r] = [first |-> r, last |-> l]
    BY <2>3
  <2>6. \A end : [first |-> r, last |-> end] # NoReport /\ [first |-> report.first, last |-> end] # NoReport
    BY <2>1, <2>3, <2>4 DEF NoReport
  <2>7. [report EXCEPT !.first = r] # NoReport
    BY <2>5, <2>6
  <2>8. CASE OpenReport(r) \/ WriteReport(r)
    BY <2>2, <2>7, <2>8 DEF OpenReport, WriteReport
  <2>9. CASE CloseReport(r)
    <3>1. CASE report' \in {report, [report EXCEPT !.first = r]}
      BY <2>7, <3>1
    <3>2. ASSUME NEW end, \/ report' = [first |-> r, last |-> end]
                          \/ report' = [first |-> report.first, last |-> end]
          PROVE  report' # NoReport
      BY <2>6, <3>2
    <3> QED BY <2>9, <3>1, <3>2 DEF CloseReport
  <2> QED BY <1>1, <2>8, <2>9
<1>2. ASSUME NEW r \in Requests, Service(r) \/ Die(r)
      PROVE  report' = report
  BY <1>2 DEF Service, StartEngine, WaitFor, ReadLog, CheckExit, ReadReport, Die, engineVars
<1>3. ASSUME NEW r \in Requests, RunPreset(r) \/ Post(r)
      PROVE  report' = report
  BY <1>3 DEF RunPreset, Post, Send, engineVars
<1>4. ASSUME ShowAnswer \/ ShowInitial \/ Terminating \/ UNCHANGED vars
      PROVE  report' = report
  BY <1>4 DEF ShowAnswer, ShowInitial, Terminating, vars, engineVars
<1> QED BY <1>1, <1>2, <1>3, <1>4, RequestsAssumption DEF Next, Engine

\* An engine opens the report before it writes into it.
LEMMA FileStep == TInv /\ FInv /\ [Next]_vars => FInv'
<1> SUFFICES ASSUME TInv, FInv, [Next]_vars,
                    NEW s \in Requests, process'[s] \in {"opened", "halfWritten"}
             PROVE  report' # NoReport
  BY DEF FInv
<1>1. process[s] \in {"opened", "halfWritten"} \/ report' = Empty
  <2>1. process \in [Requests -> ProcessStates]
    BY DEF TInv, Types, ProcessStates
  <2>2. ASSUME NEW r \in Requests, StartEngine(r)
        PROVE  process'[s] = process[s] \/ process'[s] \in {"processing", "exit1"}
    BY <2>1, <2>2 DEF StartEngine, engineVars
  <2>3. ASSUME NEW r \in Requests, WaitFor(r) \/ ReadLog(r) \/ CheckExit(r) \/ ReadReport(r)
        PROVE  process' = process
    BY <2>3 DEF WaitFor, ReadLog, CheckExit, ReadReport, engineVars
  <2>4. ASSUME NEW r \in Requests, OpenReport(r)
        PROVE  process'[s] \in {process[s], "exit1"} \/ report' = Empty
    BY <2>1, <2>4 DEF OpenReport, EngineGoto
  <2>5. ASSUME NEW r \in Requests, WriteReport(r) \/ CloseReport(r)
        PROVE  process'[s] = process[s] \/ process[s] \in {"opened", "halfWritten"}
    BY <2>1, <2>5 DEF WriteReport, CloseReport, EngineGoto
  <2>6. ASSUME NEW r \in Requests, Die(r)
        PROVE  process'[s] \in {process[s], "dead"}
    BY <2>1, <2>6 DEF Die
  <2>7. ASSUME NEW r \in Requests, RunPreset(r) \/ Post(r)
        PROVE  process' = process
    BY <2>7 DEF RunPreset, Post, Send, engineVars
  <2>8. ASSUME ShowAnswer \/ ShowInitial \/ Terminating \/ UNCHANGED vars
        PROVE  process' = process
    BY <2>8 DEF ShowAnswer, ShowInitial, Terminating, vars, engineVars
  <2> QED
    BY <2>2, <2>3, <2>4, <2>5, <2>6, <2>7, <2>8, RequestsAssumption DEF Next, Service, Engine
<1>2. CASE process[s] \in {"opened", "halfWritten"}
  <2>1. report # NoReport
    BY <1>2 DEF FInv
  <2> QED BY <2>1, ReportStays
<1> QED BY <1>1, <1>2, WordsApart

\* The types and the report hold in every behaviour.
LEMMA TypesHold == Spec => [](TInv /\ FInv)
<1>1. Init => FInv
  BY DEF Init, FInv
<1>2. TInv /\ FInv /\ [Next]_vars => (TInv /\ FInv)'
  BY StepTypes, FileStep
<1> QED BY <1>1, <1>2, InitTypes, PTL DEF Spec

\* TypeOK: the threads, the engines and the two files keep their forms, an answer is there
\* exactly when the request is answered and says success exactly with its message, and
\* only an engine that was given up is killed (runAnalysis, lines 42-74).
THEOREM TypeCorrect == Spec => []TypeOK
<1>1. TInv => TypeOK
  <2> SUFFICES ASSUME TInv PROVE TypeOK
    OBVIOUS
  <2>1. \A r \in Requests : response[r] \in AnswerType /\ AnswerOK(r)
    BY DEF TInv, Types
  <2>2. \A r \in Requests :
          /\ response[r].status \in {0, 200, 500} /\ response[r].report \in Reports
          /\ (response[r].status # 0) <=> thread[r] = "answered"
          /\ (response[r].status = 200) <=> response[r].message = "completed"
          /\ thread[r] \in {"unsent", "start"} => process[r] = "none"
    BY <2>1 DEF AnswerType, AnswerOK
  <2>3. killed \subseteq {r \in Requests : ~completed[r]}
    BY DEF TInv, Types, AnswerOK
  <2>4. /\ report.first \in Writers \cup {Nobody, "absent"}
        /\ (report.first = "absent") <=> report = NoReport
    <3>1. CASE report = NoReport
      BY <3>1 DEF NoReport
    <3>2. CASE report # NoReport
      <4>1. report.first \in Writers \cup {Nobody}
        BY <3>2 DEF TInv, Types, FileType
      <4>2. "absent" \notin Writers \cup {Nobody}
        BY WordsApart DEF Writers, Earlier, Nobody
      <4> QED BY <3>2, <4>1, <4>2
    <3> QED BY <3>1, <3>2
  <2> QED BY <2>2, <2>3, <2>4 DEF TInv, Types, TypeOK
<1> QED BY <1>1, TypesHold, PTL

-----------------------------------------------------------------------------
(***************************************************************************)
(* Every step keeps what an engine that runs alone leaves.                  *)
(***************************************************************************)

\* A request nothing happens to.
LEMMA StaysOwn ==
  ASSUME NEW r \in Requests, OwnEngine(r), thread'[r] = thread[r], response'[r] = response[r],
         rules'[r] = rules[r], process'[r] = process[r]
  PROVE  OwnEngine(r)'
BY DEF OwnEngine, Busy

\* Nothing happens to a request that is alone, and to the files while it is served.
LEMMA StaysAlone ==
  ASSUME NEW r \in Requests, Alone(r), thread'[r] = thread[r], response'[r] = response[r],
         process'[r] = process[r],
         Busy(r) => /\ Running' \subseteq Running /\ log' \subseteq log /\ report' = report
                    /\ console'[r] = console[r]
  PROVE  Alone(r)'
<1>1. thread'[r] \notin {"unsent", "start"} /\ (Busy(r)' => Busy(r))
      /\ (response'[r].status = 200 => OwnAnswer(r)')
  BY DEF Alone, Busy, OwnAnswer
<1>2. Busy(r) => OwnFiles(r)'
  BY DEF Alone, OwnFiles
<1> QED BY <1>1, <1>2 DEF Alone

\* An answer that is no success.
LEMMA RefusedOwn ==
  ASSUME NEW r \in Requests, thread'[r] = "answered", response'[r].status = 500
  PROVE  OwnEngine(r)' /\ Alone(r)'
<1>1. response'[r].status # 200
  <2>1. 500 # 200
    OBVIOUS
  <2> QED BY <2>1
<1>2. ~Busy(r)' /\ thread'[r] \notin {"unsent", "start", "read"}
  BY DEF Busy
<1> QED BY <1>1, <1>2 DEF OwnEngine, Alone

\* An answer that is no success, the engines and the report left alone.
LEMMA RefuseKeeps ==
  ASSUME TInv, OInv, NEW q \in Requests, Moves(q, "answered"),
         NEW message, NEW x, NEW c, Answers(q, 500, message, x, c),
         console' = console, log' \subseteq log, UNCHANGED <<process, rules, report, alone>>
  PROVE  OInv'
<1>1. thread'[q] = "answered" /\ response'[q].status = 500
  BY DEF Moves, Answers
<1>2. \A r \in Requests : r # q => thread'[r] = thread[r] /\ response'[r] = response[r]
  BY DEF Moves, Answers
<1>3. Running' = Running /\ alone' = alone /\ alone \subseteq Requests
  BY DEF Running, TInv, Types
<1>4. ASSUME NEW r \in Requests
      PROVE  OwnEngine(r)'
  BY <1>1, <1>2, StaysOwn, RefusedOwn DEF OInv
<1>5. ASSUME NEW r \in alone'
      PROVE  Alone(r)'
  <2>1. r \in Requests /\ Alone(r)
    BY <1>3 DEF OInv
  <2>2. CASE r = q
    BY <1>1, <2>1, <2>2, RefusedOwn
  <2>3. CASE r # q
    BY <1>2, <1>3, <2>1, <2>3, StaysAlone
  <2> QED BY <2>2, <2>3
<1> QED BY <1>4, <1>5 DEF OInv

\* So does an answer of the service that is an error.
LEMMA AnswerRefuses ==
  ASSUME TInv, OInv, NEW q \in Requests, NEW message \in Messages,
         Answer(q, 500, message, Nobody), log' \subseteq log,
         UNCHANGED <<process, rules, report, alone>>
  PROVE  OInv'
<1>1. Moves(q, "answered")
  BY GotoMoves DEF Answer, ThreadStates
<1>2. console[q] \in SUBSET Requests /\ Nobody \in Reports
  BY DEF TInv, Types, Reports
<1>3. Gives(q, 500, message, Nobody, console[q])
  BY DEF Answer, Gives
<1>4. Answers(q, 500, message, Nobody, console[q])
  BY <1>2, <1>3, AnswerIsGiven
<1>5. console' = console
  BY DEF Answer
<1> QED BY <1>1, <1>4, <1>5, RefuseKeeps

\* Whoever starts its engine is alone from then on if no other engine runs, and the
\* others that are being served are not.
LEMMA StartOwn ==
  ASSUME TInv, OInv, NEW q \in Requests, StartEngine(q), TInv'
  PROVE  OInv'
<1> DEFINE others == {s \in Requests : thread[s] \in {"wait", "log", "check", "read"}}
<1>1. thread[q] = "start" /\ ConfigOf[q].exit = "none"
  BY RequestsAreRead DEF StartEngine
<1>2. ASSUME Goto(q, "wait"), process' = [process EXCEPT ![q] = "processing"],
             rules' = [rules EXCEPT ![q] = AskedFor[q]], log' = {q},
             alone' = (alone \ others) \cup (IF Running = {} THEN {q} ELSE {}),
             response' = response
      PROVE  OInv'
  <2>1. Moves(q, "wait")
    BY <1>2, GotoMoves DEF ThreadStates
  <2>2. thread'[q] = "wait" /\ \A r \in Requests : r # q => thread'[r] = thread[r]
    BY <2>1 DEF Moves
  <2>3. /\ process'[q] = "processing" /\ rules'[q] = AskedFor[q]
        /\ \A r \in Requests : r # q => process'[r] = process[r] /\ rules'[r] = rules[r]
    BY <1>2 DEF TInv, Types
  <2>4. response'[q].status # 200
    <3>1. AnswerOK(q)'
      BY DEF TInv
    <3>2. 0 # 200
      OBVIOUS
    <3> QED BY <2>2, <3>1, <3>2 DEF AnswerOK
  <2>5. ASSUME NEW r \in Requests
        PROVE  OwnEngine(r)'
    <3>1. CASE r = q
      BY <2>2, <2>3, <2>4, <3>1 DEF OwnEngine
    <3>2. CASE r # q
      BY <1>2, <2>2, <2>3, <3>2, StaysOwn DEF OInv
    <3> QED BY <3>1, <3>2
  <2>6. ASSUME NEW r \in alone'
        PROVE  Alone(r)'
    <3>1. r \in Requests
      BY DEF TInv, Types
    <3>2. CASE r = q
      <4>1. q \notin alone
        BY <1>1 DEF OInv, Alone
      <4>2. Running = {}
        BY <1>2, <3>2, <4>1
      <4>3. Running' \subseteq {q}
        BY <2>3, <4>2 DEF Running
      <4>4. OwnFiles(q)'
        BY <1>2, <2>2, <2>3, <4>3 DEF OwnFiles
      <4> QED BY <2>2, <2>4, <3>2, <4>4 DEF Alone
    <3>3. CASE r # q
      <4>1. r \in alone /\ r \notin others
        BY <1>2, <3>3
      <4>2. Alone(r) /\ ~Busy(r)
        BY <3>1, <4>1 DEF OInv, Busy
      <4> QED BY <1>2, <2>2, <3>1, <3>3, <4>2, StaysAlone
    <3> QED BY <3>2, <3>3
  <2> QED BY <2>5, <2>6 DEF OInv
<1>3. ASSUME Answer(q, 500, "IOException", Nobody), log' \in {log, {}},
             UNCHANGED <<process, rules, killed, report, alone, pageVars>>
      PROVE  OInv'
  <2>1. "IOException" \in Messages /\ log' \subseteq log
    BY <1>3 DEF Messages
  <2> QED BY <1>3, <2>1, AnswerRefuses
<1> QED BY <1>1, <1>2, <1>3 DEF StartEngine

\* A thread moves on without an answer; it read the log, or found the engine ended well.
LEMMA MovesOwn ==
  ASSUME TInv, OInv, NEW q \in Requests, Busy(q), NEW to \in {"log", "check", "read"},
         Moves(q, to), to = "read" => process[q] \in {"exit0", "unflushed"} /\ thread[q] = "check",
         \A r \in Requests : r # q => console'[r] = console[r],
         to = "check" => console'[q] = log, to # "check" => console'[q] = console[q],
         response' = response, UNCHANGED <<process, rules, report, log, alone>>
  PROVE  OInv'
<1>1. thread'[q] = to /\ \A r \in Requests : r # q => thread'[r] = thread[r]
  BY DEF Moves
<1>2. Running' = Running /\ alone' = alone /\ alone \subseteq Requests
  BY DEF Running, TInv, Types
<1>3. response[q].status # 200
  <2>1. AnswerOK(q) /\ thread[q] # "answered"
    BY DEF TInv, Busy
  <2>2. 0 # 200
    OBVIOUS
  <2> QED BY <2>1, <2>2 DEF AnswerOK
<1>4. ASSUME NEW r \in Requests
      PROVE  OwnEngine(r)'
  <2>1. OwnEngine(r)
    BY DEF OInv
  <2>2. CASE r = q
    BY <1>1, <1>3, <2>1, <2>2 DEF OwnEngine
  <2>3. CASE r # q
    BY <1>1, <2>1, <2>3, StaysOwn
  <2> QED BY <2>2, <2>3
<1>5. ASSUME NEW r \in alone'
      PROVE  Alone(r)'
  <2>1. r \in Requests /\ Alone(r)
    BY <1>2 DEF OInv
  <2>2. CASE r = q
    <3>1. OwnFiles(q)
      BY <2>1, <2>2 DEF Alone
    <3>2. thread'[q] \in {"check", "read"} => console'[q] \subseteq {q}
      BY <1>1, <3>1 DEF OwnFiles
    <3>3. OwnFiles(q)'
      BY <1>2, <3>1, <3>2 DEF OwnFiles
    <3> QED BY <1>1, <1>3, <2>2, <3>3 DEF Alone
  <2>3. CASE r # q
    BY <1>1, <1>2, <2>1, <2>3, StaysAlone
  <2> QED BY <2>2, <2>3
<1> QED BY <1>4, <1>5 DEF OInv

\* While it waits nothing of its own changes.
LEMMA WaitOwn ==
  ASSUME TInv, OInv, NEW q \in Requests, WaitFor(q)
  PROVE  OInv'
<1>1. Moves(q, "log") /\ Busy(q)
  BY GotoMoves DEF WaitFor, ThreadStates, Busy
<1>2. console' = console /\ response' = response /\ UNCHANGED <<process, rules, report, log, alone>>
  BY DEF WaitFor, engineVars
<1> QED BY <1>1, <1>2, MovesOwn

\* The log an engine alone wrote is the one that is read.
LEMMA LogOwn ==
  ASSUME TInv, OInv, NEW q \in Requests, ReadLog(q)
  PROVE  OInv'
<1>1. thread[q] = "log" /\ UNCHANGED <<process, rules, report, log, alone, pageVars>>
  BY DEF ReadLog
<1>2. ASSUME Goto(q, "answered"), UNCHANGED <<completed, console>>,
             response' = [response EXCEPT ![q] =
               [status |-> 500, message |-> "timedOut", report |-> Nobody, console |-> log]]
      PROVE  OInv'
  <2>1. Moves(q, "answered")
    BY <1>2, GotoMoves DEF ThreadStates
  <2>2. "timedOut" \in Messages /\ Nobody \in Reports /\ log \in SUBSET Requests
    BY DEF Messages, Reports, TInv, Types
  <2>3. Gives(q, 500, "timedOut", Nobody, log)
    BY <1>2 DEF Gives
  <2>4. Answers(q, 500, "timedOut", Nobody, log)
    BY <2>2, <2>3, AnswerIsGiven
  <2> QED BY <1>1, <1>2, <2>1, <2>4, RefuseKeeps
<1>3. ASSUME Goto(q, "check"), console' = [console EXCEPT ![q] = log],
             UNCHANGED <<completed, response, killed>>
      PROVE  OInv'
  <2>1. Moves(q, "check") /\ Busy(q)
    BY <1>1, <1>3, GotoMoves DEF ThreadStates, Busy
  <2>2. console'[q] = log /\ \A r \in Requests : r # q => console'[r] = console[r]
    BY <1>3 DEF TInv, Types
  <2> QED BY <1>1, <1>3, <2>1, <2>2, MovesOwn
<1>4. ASSUME Answer(q, 500, "IOException", Nobody), UNCHANGED killed
      PROVE  OInv'
  <2>1. "IOException" \in Messages /\ UNCHANGED <<process, rules, report, log, alone>>
    BY <1>1 DEF Messages
  <2> QED BY <1>4, <2>1, AnswerRefuses
<1> QED BY <1>2, <1>3, <1>4 DEF ReadLog

\* The report is read only of an engine that ended with status 0.
LEMMA CheckOwn ==
  ASSUME TInv, OInv, NEW q \in Requests, CheckExit(q)
  PROVE  OInv'
<1>1. thread[q] = "check" /\ UNCHANGED <<engineVars, alone, pageVars>>
  BY DEF CheckExit
<1>2. ASSUME process[q] \in {"exit0", "unflushed"}, Goto(q, "read"), UNCHANGED <<completed, console, response>>
      PROVE  OInv'
  <2>1. Moves(q, "read") /\ Busy(q)
    BY <1>1, <1>2, GotoMoves DEF ThreadStates, Busy
  <2>2. UNCHANGED <<process, rules, report, log, alone>>
    BY <1>1 DEF engineVars
  <2> QED BY <1>1, <1>2, <2>1, <2>2, MovesOwn
<1>3. ASSUME Answer(q, 500, "failed", Nobody)
      PROVE  OInv'
  <2>1. "failed" \in Messages /\ UNCHANGED <<process, rules, report, log, alone>>
    BY <1>1 DEF Messages, engineVars
  <2> QED BY <1>3, <2>1, AnswerRefuses
<1> QED BY <1>2, <1>3 DEF CheckExit

\* What an engine that ran alone wrote is what is read.
LEMMA ReadsItsOwn ==
  ASSUME NEW q \in Requests, report = [first |-> q, last |-> q]
  PROVE  Readable = {q}
<1>1. report # NoReport /\ report # Empty /\ report.first = q /\ report.last = q
  BY WordsApart DEF NoReport, Empty
<1> QED BY <1>1 DEF Readable

\* What it left of a report that its last write failed for cannot be read, or is empty.
LEMMA ReadsNothing ==
  ASSUME NEW q \in Requests, report \in {Empty, [first |-> q, last |-> Nobody]}
  PROVE  Readable \subseteq {Nobody, "IOException"}
<1>1. report # NoReport /\ q # Nobody
  BY WordsApart DEF NoReport
<1>2. CASE report = Empty
  BY <1>1, <1>2 DEF Readable
<1>3. CASE report = [first |-> q, last |-> Nobody]
  <2>1. report # Empty /\ report.first # report.last /\ Nobody \in {report.first, report.last}
    BY <1>1, <1>3 DEF Empty
  <2> QED BY <1>1, <2>1 DEF Readable
<1> QED BY <1>2, <1>3

\* So a success carries the report of its own engine.
LEMMA ReportOwn ==
  ASSUME TInv, OInv, NEW q \in Requests, ReadReport(q)
  PROVE  OInv'
<1>1. thread[q] = "read" /\ UNCHANGED <<engineVars, alone, pageVars>>
  BY DEF ReadReport
<1>2. PICK x \in Readable :
        IF x = "IOException" THEN Answer(q, 500, x, Nobody) ELSE Answer(q, 200, "completed", x)
  BY DEF ReadReport
<1>3. {"IOException", "completed"} \subseteq Messages
  BY DEF Messages
<1>4. CASE x = "IOException"
  <2>1. Answer(q, 500, "IOException", Nobody)
    BY <1>2, <1>4
  <2>2. UNCHANGED <<process, rules, report, log, alone>>
    BY <1>1 DEF engineVars
  <2> QED BY <1>3, <2>1, <2>2, AnswerRefuses
<1>5. CASE x # "IOException"
  <2>1. Answer(q, 200, "completed", x) /\ x \in Reports
    BY <1>2, <1>5, ReadableReports
  <2>2. Moves(q, "answered")
    BY <2>1, GotoMoves DEF Answer, ThreadStates
  <2>3. console[q] \in SUBSET Requests /\ Gives(q, 200, "completed", x, console[q])
    BY <2>1 DEF TInv, Types, Answer, Gives
  <2>4. Answers(q, 200, "completed", x, console[q])
    BY <1>3, <2>1, <2>3, AnswerIsGiven
  <2>5. /\ thread'[q] = "answered" /\ \A r \in Requests : r # q => thread'[r] = thread[r]
        /\ response'[q].report = x /\ response'[q].console = console[q]
        /\ \A r \in Requests : r # q => response'[r] = response[r]
    BY <2>2, <2>4 DEF Moves, Answers
  <2>6. console' = console /\ UNCHANGED <<process, rules, report, log, alone>>
    BY <1>1, <2>1 DEF Answer, engineVars
  <2>7. Running' = Running /\ alone' = alone /\ alone \subseteq Requests
    BY <2>6 DEF Running, TInv, Types
  <2>8. ASSUME NEW r \in Requests
        PROVE  OwnEngine(r)'
    <3>1. OwnEngine(r)
      BY DEF OInv
    <3>2. CASE r = q
      BY <1>1, <2>5, <2>6, <3>1, <3>2 DEF OwnEngine, Busy
    <3>3. CASE r # q
      BY <2>5, <2>6, <3>1, <3>3, StaysOwn
    <3> QED BY <3>2, <3>3
  <2>9. ASSUME NEW r \in alone'
        PROVE  Alone(r)'
    <3>1. r \in Requests /\ Alone(r)
      BY <2>7 DEF OInv
    <3>2. CASE r = q
      <4>1. OwnFiles(q) /\ process[q] \in {"exit0", "unflushed"}
        BY <1>1, <3>1, <3>2 DEF Alone, Busy, OInv, OwnEngine
      <4>2. console[q] \subseteq {q}
        BY <1>1, <4>1 DEF OwnFiles
      <4>3. process[q] = "exit0" => x = q
        BY <4>1, ReadsItsOwn DEF OwnFiles
      <4>4. process[q] = "unflushed" => x = Nobody
        BY <1>5, <4>1, ReadsNothing DEF OwnFiles
      <4>5. OwnAnswer(q)'
        BY <2>5, <2>6, <4>1, <4>2, <4>3, <4>4 DEF OwnAnswer
      <4> QED BY <2>5, <3>2, <4>5 DEF Alone, Busy
    <3>3. CASE r # q
      BY <2>5, <2>6, <2>7, <3>1, <3>3, StaysAlone
    <3> QED BY <3>2, <3>3
  <2> QED BY <2>8, <2>9 DEF OInv
<1> QED BY <1>4, <1>5

\* What the last write leaves, all of it or not.
Closes(q, to) ==
  \/ /\ process[q] = "opened" /\ to = "exit0"
     /\ \E end \in EndAfter(q) : report' = [first |-> q, last |-> end]
  \/ /\ process[q] = "halfWritten" /\ to = "exit0"
     /\ \E end \in EndAfter(q) : report' = [first |-> report.first, last |-> end]
  \/ process[q] = "opened" /\ to = "unflushed" /\ report' \in {report, [report EXCEPT !.first = q]}
  \/ process[q] = "halfWritten" /\ to = "unflushed" /\ report' = report

\* For an engine that runs alone: its whole report, or none or half of it.
LEMMA ClosesOwn ==
  ASSUME NEW q \in Requests, OwnFiles(q), NEW to, Closes(q, to)
  PROVE  /\ to = "exit0" => report' = [first |-> q, last |-> q]
         /\ to = "unflushed" => report' \in {Empty, [first |-> q, last |-> Nobody]}
<1>1. process[q] = "opened" => report = [first |-> Nobody, last |-> Nobody]
  BY DEF OwnFiles, Empty
<1>2. process[q] = "halfWritten" => report = [first |-> q, last |-> Nobody]
  BY DEF OwnFiles
<1>3. process[q] \in {"opened", "halfWritten"} => report.last = Nobody
  BY <1>1, <1>2
<1>4. process[q] \in {"opened", "halfWritten"} => EndAfter(q) = {q}
  BY <1>3 DEF EndAfter
<1>5. process[q] = "opened" => [report EXCEPT !.first = q] = [first |-> q, last |-> Nobody]
  BY <1>1
<1>6. process[q] = "halfWritten" => report.first = q
  BY <1>2
<1>7. "exit0" # "unflushed"
  OBVIOUS
<1>8. to = "exit0" => report' = [first |-> q, last |-> q]
  BY <1>4, <1>6, <1>7 DEF Closes
<1>9. to = "unflushed" => report' \in {Empty, [first |-> q, last |-> Nobody]}
  BY <1>1, <1>2, <1>5, <1>7 DEF Closes, Empty
<1> QED BY <1>8, <1>9

\* An engine writes what is its own, and while a request is served alone the only one.
LEMMA EngineOwn ==
  ASSUME TInv, OInv, NEW q \in Requests, q \in Running, NEW to \in ProcessStates,
         process' = [process EXCEPT ![q] = to], log' \subseteq log \cup {q},
         to # "processing", UNCHANGED <<serviceVars, rules, alone>>,
         to = "opened" => report' = Empty,
         to = "halfWritten" => process[q] = "opened" /\ report' = [report EXCEPT !.first = q],
         to \in {"exit0", "unflushed"} => Closes(q, to)
  PROVE  OInv'
<1>1. process'[q] = to /\ \A r \in Requests : r # q => process'[r] = process[r]
  BY DEF TInv, Types
<1>2. /\ thread' = thread /\ response' = response /\ console' = console
      /\ rules' = rules /\ alone' = alone /\ alone \subseteq Requests
  BY DEF serviceVars, TInv, Types
<1>3. process[q] \notin {"exit0", "unflushed"}
  BY DEF Running
<1>4. ASSUME NEW r \in Requests
      PROVE  OwnEngine(r)'
  <2>1. OwnEngine(r)
    BY DEF OInv
  <2>2. CASE r = q
    <3>1. thread[q] # "read" /\ response[q].status # 200
      BY <1>3, <2>1, <2>2 DEF OwnEngine
    <3> QED BY <1>2, <2>1, <2>2, <3>1 DEF OwnEngine, Busy
  <2>3. CASE r # q
    BY <1>1, <1>2, <2>1, <2>3, StaysOwn
  <2> QED BY <2>2, <2>3
<1>5. ASSUME NEW r \in alone'
      PROVE  Alone(r)'
  <2>1. r \in Requests /\ Alone(r)
    BY <1>2 DEF OInv
  <2>2. CASE ~Busy(r)
    <3>1. CASE r = q
      <4>1. response'[q].status # 200
        BY <1>2, <1>3, <2>1, <3>1 DEF OInv, OwnEngine
      <4> QED BY <1>2, <2>1, <2>2, <3>1, <4>1 DEF Alone, Busy
    <3>2. CASE r # q
      BY <1>1, <1>2, <2>1, <2>2, <3>2, StaysAlone
    <3> QED BY <3>1, <3>2
  <2>3. CASE Busy(r)
    <3>1. OwnFiles(r)
      BY <2>1, <2>3 DEF Alone
    <3>2. r = q
      BY <3>1 DEF OwnFiles
    <3>3. Running' \subseteq {q} /\ log' \subseteq {q}
      <4>1. Running \subseteq {q} /\ log \subseteq {q}
        BY <3>1, <3>2 DEF OwnFiles
      <4> QED BY <1>1, <4>1 DEF Running
    <3>4. to = "halfWritten" => report' = [first |-> q, last |-> Nobody]
      <4>1. SUFFICES ASSUME to = "halfWritten"
                     PROVE  report' = [first |-> q, last |-> Nobody]
        OBVIOUS
      <4>2. report = [first |-> Nobody, last |-> Nobody]
        BY <3>1, <3>2, <4>1 DEF OwnFiles, Empty
      <4> QED BY <4>1, <4>2
    <3>5. /\ to = "exit0" => report' = [first |-> q, last |-> q]
          /\ to = "unflushed" => report' \in {Empty, [first |-> q, last |-> Nobody]}
      BY <3>1, <3>2, ClosesOwn
    <3>6. thread'[q] \in {"check", "read"} => console'[q] \subseteq {q}
      BY <1>2, <3>1, <3>2 DEF OwnFiles
    <3>7. Empty' = Empty
      BY DEF Empty
    <3>8. OwnFiles(q)'
      BY <1>1, <3>3, <3>4, <3>5, <3>6, <3>7 DEF OwnFiles
    <3>9. response'[q].status # 200
      BY <1>2, <1>3, <2>1, <3>2 DEF OInv, OwnEngine
    <3> QED BY <1>2, <2>1, <3>2, <3>8, <3>9 DEF Alone
  <2> QED BY <2>2, <2>3
<1> QED BY <1>4, <1>5 DEF OInv

\* Every step of an engine is one of those.
LEMMA ProcessOwn ==
  ASSUME TInv, OInv, NEW q \in Requests, Engine(q) \/ Die(q)
  PROVE  OInv'
<1>1. CASE OpenReport(q)
  <2>1. process[q] = "processing" /\ UNCHANGED <<serviceVars, alone, pageVars>>
    BY <1>1 DEF OpenReport
  <2>2. q \in Running /\ {"opened", "exit1"} \subseteq ProcessStates
    BY <2>1 DEF Running, ProcessStates
  <2>3. CASE EngineGoto(q, "opened") /\ report' = Empty
    BY <2>1, <2>2, <2>3, EngineOwn DEF EngineGoto
  <2>4. CASE EngineGoto(q, "exit1") /\ UNCHANGED report
    BY <2>1, <2>2, <2>4, EngineOwn DEF EngineGoto
  <2> QED BY <1>1, <2>3, <2>4 DEF OpenReport
<1>2. CASE WriteReport(q)
  <2>1. process[q] = "opened" /\ UNCHANGED <<serviceVars, alone, pageVars>>
    BY <1>2 DEF WriteReport
  <2>2. q \in Running /\ {"halfWritten", "exit1"} \subseteq ProcessStates
    BY <2>1 DEF Running, ProcessStates
  <2>3. CASE EngineGoto(q, "halfWritten") /\ report' = [report EXCEPT !.first = q]
    BY <2>1, <2>2, <2>3, EngineOwn DEF EngineGoto
  <2>4. CASE EngineGoto(q, "exit1")
    BY <2>1, <2>2, <2>4, EngineOwn DEF EngineGoto
  <2> QED BY <1>2, <2>3, <2>4 DEF WriteReport
<1>3. CASE CloseReport(q)
  <2>1. process[q] \in {"opened", "halfWritten"} /\ UNCHANGED <<serviceVars, alone, pageVars>>
    BY <1>3 DEF CloseReport
  <2>2. q \in Running /\ {"exit0", "unflushed"} \subseteq ProcessStates
    BY <2>1 DEF Running, ProcessStates
  <2>3. \/ EngineGoto(q, "exit0") /\ Closes(q, "exit0")
        \/ EngineGoto(q, "unflushed") /\ Closes(q, "unflushed")
    BY <1>3, <2>1 DEF CloseReport, Closes
  <2>4. ASSUME NEW to \in {"exit0", "unflushed"}, EngineGoto(q, to), Closes(q, to)
        PROVE  OInv'
    BY <2>1, <2>2, <2>4, EngineOwn DEF EngineGoto
  <2> QED BY <2>3, <2>4
<1>4. CASE Die(q)
  <2>1. /\ q \in Running /\ process' = [process EXCEPT ![q] = "dead"]
        /\ UNCHANGED <<serviceVars, rules, killed, report, log, alone, pageVars>>
    BY <1>4 DEF Die
  <2>2. "dead" \in ProcessStates
    BY DEF ProcessStates
  <2> QED BY <2>1, <2>2, EngineOwn
<1> QED BY <1>1, <1>2, <1>3, <1>4 DEF Engine

\* A request that is sent has no engine yet.
LEMMA SendOwn ==
  ASSUME TInv, OInv, NEW q \in Requests, Send(q)
  PROVE  OInv'
<1>1. thread[q] = "unsent" /\ UNCHANGED <<completed, console, response, engineVars, alone, shown, loading>>
  BY DEF Send
<1>2. Moves(q, "start")
  BY GotoMoves DEF Send, ThreadStates
<1>3. thread'[q] = "start" /\ \A r \in Requests : r # q => thread'[r] = thread[r]
  BY <1>2 DEF Moves
<1>4. UNCHANGED <<process, rules, report, log, alone, console, response>>
  BY <1>1 DEF engineVars
<1>5. Running' = Running /\ alone' = alone /\ alone \subseteq Requests
  BY <1>4 DEF Running, TInv, Types
<1>6. response[q].status # 200
  <2>1. AnswerOK(q) /\ 0 # 200
    BY DEF TInv
  <2> QED BY <1>1, <2>1 DEF AnswerOK
<1>7. ASSUME NEW r \in Requests
      PROVE  OwnEngine(r)'
  <2>1. OwnEngine(r)
    BY DEF OInv
  <2>2. CASE r = q
    BY <1>3, <1>4, <1>6, <2>2 DEF OwnEngine, Busy
  <2>3. CASE r # q
    BY <1>3, <1>4, <2>1, <2>3, StaysOwn
  <2> QED BY <2>2, <2>3
<1>8. ASSUME NEW r \in alone'
      PROVE  Alone(r)'
  <2>1. r \in Requests /\ Alone(r)
    BY <1>5 DEF OInv
  <2>2. r # q
    BY <1>1, <2>1 DEF Alone
  <2> QED BY <1>3, <1>4, <1>5, <2>1, <2>2, StaysAlone
<1> QED BY <1>7, <1>8 DEF OInv

\* Every step keeps what is said of requests and of those that are alone.
LEMMA OwnStep == TInv /\ FInv /\ OInv /\ [Next]_vars => OInv'
<1> SUFFICES ASSUME TInv, FInv, OInv, [Next]_vars
             PROVE  OInv'
  OBVIOUS
<1>0. TInv'
  BY StepTypes
<1>1. ASSUME NEW r \in Requests, Service(r)
      PROVE  OInv'
  BY <1>0, <1>1, StartOwn, WaitOwn, LogOwn, CheckOwn, ReportOwn DEF Service
<1>2. ASSUME NEW r \in Requests, Engine(r) \/ Die(r)
      PROVE  OInv'
  BY <1>2, ProcessOwn
<1>3. ASSUME NEW r \in Requests, RunPreset(r) \/ Post(r)
      PROVE  OInv'
  BY <1>3, SendOwn DEF RunPreset, Post
<1>4. ASSUME UNCHANGED <<serviceVars, engineVars, alone>>
      PROVE  OInv'
  <2>1. /\ UNCHANGED <<thread, response, console, process, rules, report, log, alone>>
        /\ Running' = Running
    BY <1>4 DEF serviceVars, engineVars, Running
  <2>2. \A r \in Requests : OwnEngine(r)'
    BY <2>1, StaysOwn DEF OInv
  <2>3. ASSUME NEW r \in alone'
        PROVE  Alone(r)'
    <3>1. r \in Requests /\ Alone(r)
      BY <2>1 DEF OInv, TInv, Types
    <3> QED BY <2>1, <3>1, StaysAlone
  <2> QED BY <2>2, <2>3 DEF OInv
<1>5. ASSUME ShowAnswer \/ ShowInitial \/ Terminating \/ UNCHANGED vars
      PROVE  OInv'
  BY <1>4, <1>5 DEF ShowAnswer, ShowInitial, Terminating, vars
<1> QED BY <1>1, <1>2, <1>3, <1>5, RequestsAssumption DEF Next

\* SuccessIsOwn: a request that no other engine ran beside is answered with success only
\* when its own engine ended with status 0, and with the report that engine wrote to the
\* end, or with none when the write after its last check failed; run with the rules the
\* request asked for and no other, and a log nobody else wrote in, for any requests and
\* any words in them (runAnalysis, lines 42-74, with buildCommand and the options and the
\* report of main_dpi.cpp).
THEOREM SuccessReportsOwnRun == Spec => []SuccessIsOwn
<1>1. Init => OInv
  <2> SUFFICES ASSUME Init PROVE OInv
    OBVIOUS
  <2>1. alone = {}
    BY DEF Init
  <2>2. ASSUME NEW r \in Requests
        PROVE  OwnEngine(r)
    <3>1. thread[r] = "unsent" /\ response[r].status = 0
      BY DEF Init, NoAnswer
    <3>2. 0 # 200
      OBVIOUS
    <3> QED BY <3>1, <3>2 DEF OwnEngine, Busy
  <2> QED BY <2>1, <2>2 DEF OInv
<1>2. TInv /\ FInv /\ OInv /\ [Next]_vars => OInv'
  BY OwnStep
<1>3. TInv /\ OInv => SuccessIsOwn
  <2> SUFFICES ASSUME TInv, OInv, NEW r \in alone, response[r].status = 200
               PROVE  OwnAnswer(r) /\ RulesIn(rules[r]) = RequestedBy(BodyOf[r])
    BY DEF SuccessIsOwn, OwnAnswer
  <2>1. r \in Requests /\ Alone(r) /\ OwnEngine(r)
    BY DEF OInv, TInv, Types
  <2>2. rules[r] = AskedFor[r]
    BY <2>1 DEF OwnEngine
  <2>3. RulesIn(AskedFor[r]) = RequestedBy(BodyOf[r])
    BY <2>1, RequestsAreRead
  <2> QED BY <2>1, <2>2, <2>3 DEF Alone
<1> QED BY <1>1, <1>2, <1>3, TypesHold, PTL DEF Spec
=============================================================================
