-------------------------- MODULE TraceChecksProofs --------------------------
(***************************************************************************)
(* What the checkers that read the trace report, for any transaction, any  *)
(* inner calls and any intents.                                            *)
(***************************************************************************)
EXTENDS TraceChecks, ScorerProofs, FiniteSetTheorems

\* The types of the simulation.
SimTypes ==
    /\ tx \in Seq(Instructions) /\ at \in 0..Len(tx)
    /\ inner \in Seq([index : Nat, height : Nat, call : Instructions])
    /\ height \in Nat
    /\ sim \in {"running", "ok", "failed"}
    /\ DOMAIN grants = Sources
    /\ DOMAIN lamports = Keys
    /\ sim = "ok" => at = Len(tx)

LEMMA SimTypesInit == Init => SimTypes
<1> SUFFICES ASSUME Init PROVE SimTypes
  OBVIOUS
<1>1. PICK n \in 1..MaxTopLevel : tx \in [1..n -> Instructions]
  BY DEF Init, Transactions
<1>2. tx \in Seq(Instructions) /\ Len(tx) = n
  BY <1>1, CallsAreTyped
<1>3. DOMAIN lamports = Keys
  BY DEF Init, BeforeFee
<1> QED
  BY <1>1, <1>2, <1>3 DEF Init, SimTypes

LEMMA SimTypesStep == SimTypes /\ [Next]_vars => SimTypes'
<1> SUFFICES ASSUME SimTypes, [Next]_vars PROVE SimTypes'
  OBVIOUS
<1> USE DEF SimTypes
<1>1. \A call, h : DOMAIN Granted(call, h) = Sources /\ DOMAIN Moved(call) = Keys
  BY DEF Granted, Moved
<1>2. CASE Invoke
  BY <1>1, <1>2 DEF Invoke
<1>3. ASSUME NEW call \in Instructions, Cpi(call) PROVE SimTypes'
  <2>1. PICK h \in 1..height : /\ inner' = Recorded(call, h + 1) /\ height' = h + 1
                               /\ grants' = Granted(call, h + 1)
    BY <1>3 DEF Cpi
  <2>2. [index |-> at, height |-> h + 1, call |-> call]
           \in [index : Nat, height : Nat, call : Instructions]
    OBVIOUS
  <2>3. inner' \in Seq([index : Nat, height : Nat, call : Instructions])
    BY <2>1, <2>2 DEF Recorded
  <2> QED
    BY <1>1, <1>3, <2>1, <2>3 DEF Cpi
<1>4. CASE Fails
  BY <1>4 DEF Fails, BeforeFee
<1>5. CASE Succeeds
  BY <1>5 DEF Succeeds
<1>6. CASE UNCHANGED vars
  BY <1>6 DEF vars
<1> QED
  BY <1>2, <1>3, <1>4, <1>5, <1>6 DEF Next

\* The graph lists the instructions of the transaction and then the inner calls.
GraphShape ==
    /\ Len(tx) \in Nat /\ Len(inner) \in Nat
    /\ extract_cpi_graph \in Seq([call : Instructions, index : Nat, height : Nat])
    /\ Len(extract_cpi_graph) = Len(tx) + Len(inner)
    /\ DOMAIN extract_cpi_graph = 1..(Len(tx) + Len(inner))
    /\ \A i \in 1..Len(tx) :
          extract_cpi_graph[i] = [call |-> tx[i], index |-> i, height |-> 1]
    /\ \A i \in 1..Len(inner) :
          extract_cpi_graph[Len(tx) + i]
             = [call |-> inner[i].call, index |-> inner[i].index, height |-> inner[i].height]

LEMMA GraphFacts ==
  ASSUME SimTypes
  PROVE  GraphShape
<1> DEFINE Node == [call : Instructions, index : Nat, height : Nat]
           signed == [i \in 1..Len(tx) |-> [call |-> tx[i], index |-> i, height |-> 1]]
           called == [i \in 1..Len(inner) |-> [call |-> inner[i].call, index |-> inner[i].index,
                                               height |-> inner[i].height]]
<1>1. Len(tx) \in Nat /\ Len(inner) \in Nat
  BY DEF SimTypes
<1>2. \A i \in 1..Len(tx) : [call |-> tx[i], index |-> i, height |-> 1] \in Node
  BY <1>1 DEF SimTypes
<1>3. \A i \in 1..Len(inner) : [call |-> inner[i].call, index |-> inner[i].index,
                                height |-> inner[i].height] \in Node
  <2> DEFINE Record == [index : Nat, height : Nat, call : Instructions]
  <2>1. inner \in Seq(Record)
    BY DEF SimTypes
  <2> HIDE DEF Record
  <2>2. \A i \in 1..Len(inner) : inner[i] \in Record
    BY <1>1, <2>1
  <2> QED
    BY <2>2 DEF Record
<1> HIDE DEF Node
<1>4. signed \in Seq(Node) /\ Len(signed) = Len(tx)
  BY <1>1, <1>2
<1>5. called \in Seq(Node) /\ Len(called) = Len(inner)
  BY <1>1, <1>3
<1>6. extract_cpi_graph = signed \o called
  BY DEF extract_cpi_graph
<1>7. \A i \in 1..Len(tx) : signed[i] = [call |-> tx[i], index |-> i, height |-> 1]
  OBVIOUS
<1>8. \A i \in 1..Len(inner) :
         called[i] = [call |-> inner[i].call, index |-> inner[i].index, height |-> inner[i].height]
  OBVIOUS
<1> HIDE DEF signed, called
<1>9. /\ signed \o called \in Seq(Node) /\ Len(signed \o called) = Len(tx) + Len(inner)
      /\ \A i \in 1..Len(tx) : (signed \o called)[i] = signed[i]
      /\ \A i \in 1..Len(inner) : (signed \o called)[Len(tx) + i] = called[i]
  BY <1>1, <1>4, <1>5
<1>10. extract_cpi_graph \in Seq(Node) /\ Len(extract_cpi_graph) = Len(tx) + Len(inner)
  BY <1>6, <1>9
<1>11. DOMAIN extract_cpi_graph = 1..(Len(tx) + Len(inner))
  BY <1>10
<1>12. extract_cpi_graph \in Seq([call : Instructions, index : Nat, height : Nat])
  BY <1>10 DEF Node
<1> QED
  BY <1>1, <1>6, <1>7, <1>8, <1>9, <1>10, <1>11, <1>12 DEF GraphShape
----------------------------------------------------------------------------
(* Severities.                                                             *)

\* The scale and its inverse.
LEMMA Scale ==
  /\ severity_u8["None"] = 0 /\ severity_u8["Low"] = 1 /\ severity_u8["Medium"] = 2
  /\ severity_u8["High"] = 3 /\ severity_u8["Critical"] = 4
  /\ \A s \in Levels : severity_u8[s] \in 0..4
  /\ \A n \in 0..4 : severity_from_u8[n] \in Levels /\ severity_u8[severity_from_u8[n]] = n
<1>1. /\ severity_u8["None"] = 0 /\ severity_u8["Low"] = 1 /\ severity_u8["Medium"] = 2
      /\ severity_u8["High"] = 3 /\ severity_u8["Critical"] = 4
  BY DEF severity_u8
<1>2. \A s \in Levels : severity_u8[s] \in 0..4
  BY <1>1 DEF Levels
<1>3. ASSUME NEW n \in 0..4
      PROVE  severity_from_u8[n] \in Levels /\ severity_u8[severity_from_u8[n]] = n
  <2>1. \E s \in Levels : severity_u8[s] = n
    <3>1. n = 0 \/ n = 1 \/ n = 2 \/ n = 3 \/ n = 4
      OBVIOUS
    <3> QED
      BY <1>1, <3>1 DEF Levels
  <2>2. severity_from_u8[n] = CHOOSE s \in Levels : severity_u8[s] = n
    BY DEF severity_from_u8
  <2> QED
    BY <2>1, <2>2
<1> QED
  BY <1>1, <1>2, <1>3

\* A shift stays on the scale; one up never lowers, one down keeps to its floor.
LEMMA ShiftFacts ==
  ASSUME NEW s \in Levels, NEW floor \in Levels
  PROVE  /\ shift_severity(s, 1) \in Levels
         /\ severity_u8[shift_severity(s, 1)] >= severity_u8[s]
         /\ shift_severity_with_floor(s, -1, floor) \in Levels
         /\ severity_u8[shift_severity_with_floor(s, -1, floor)] >= severity_u8[floor]
         /\ severity_u8[shift_severity_with_floor(s, -1, floor)] >= severity_u8[s] - 1
<1>1. severity_u8[s] \in 0..4 /\ severity_u8[floor] \in 0..4
  BY Scale
<1>2. ASSUME NEW d \in {-1, 1}
      PROVE  /\ shift_severity(s, d) \in Levels
             /\ severity_u8[shift_severity(s, d)] >= severity_u8[s] + d
                \/ severity_u8[shift_severity(s, d)] = 4
  <2> DEFINE n == severity_u8[s] + d
             m == IF n < 0 THEN 0 ELSE IF n > 4 THEN 4 ELSE n
  <2>1. m \in 0..4 /\ (m >= n \/ m = 4)
    BY <1>1, <1>2
  <2>2. shift_severity(s, d) = severity_from_u8[m]
    BY DEF shift_severity
  <2> HIDE DEF m
  <2> QED
    BY <2>1, <2>2, Scale
<1>3. severity_u8[shift_severity(s, 1)] >= severity_u8[s]
  BY <1>1, <1>2, Scale
<1>4. CASE severity_u8[shift_severity(s, -1)] < severity_u8[floor]
  <2>1. shift_severity_with_floor(s, -1, floor) = floor
    BY <1>4 DEF shift_severity_with_floor
  <2>2. severity_u8[shift_severity(s, -1)] \in 0..4
    BY <1>2, Scale
  <2> QED
    BY <1>1, <1>2, <1>3, <1>4, <2>1, <2>2
<1>5. CASE ~(severity_u8[shift_severity(s, -1)] < severity_u8[floor])
  <2>1. shift_severity_with_floor(s, -1, floor) = shift_severity(s, -1)
    BY <1>5 DEF shift_severity_with_floor
  <2>2. severity_u8[shift_severity(s, -1)] \in 0..4
    BY <1>2, Scale
  <2> QED
    BY <1>1, <1>2, <1>3, <1>5, <2>1, <2>2
<1> QED
  BY <1>4, <1>5

\* Every matched call is reported, and one that names a known protocol at High or more:
\* at every stack height, with or without a nonce, whatever the intent acknowledges.
LEMMA FlagSeverityFacts ==
  ASSUME NEW call, match_call(call) # NoFlag, NEW h \in Nat, NEW nonce \in BOOLEAN, NEW intent
  PROVE  /\ FlagSeverity(call, h, nonce, intent) \in Levels
         /\ severity_u8[FlagSeverity(call, h, nonce, intent)] >= 1
         /\ lookup_known_protocol_in_call(call) =>
               severity_u8[FlagSeverity(call, h, nonce, intent)] >= 3
<1> DEFINE known == lookup_known_protocol_in_call(call)
           base == IF known THEN "Critical" ELSE flag_severity(match_call(call))
           modulated == modulate_by_stack_height(base, h)
           shifted == IF nonce THEN shift_severity(modulated, 1) ELSE modulated
           floor == IF known THEN "High" ELSE "Low"
           Least(s) == s \in Levels /\ severity_u8[s] >= severity_u8[floor]
<1>1. floor \in Levels /\ severity_u8[floor] = IF known THEN 3 ELSE 1
  BY Scale DEF Levels
<1>2. base \in Levels /\ base # "None" /\ (known => base = "Critical")
  BY DEF flag_severity, Levels
<1>3. CallSeverity(call, h, nonce) = shifted
  BY DEF CallSeverity
<1>4. FlagSeverity(call, h, nonce, intent)
        = IF intent_acknowledges(intent, match_call(call))
          THEN shift_severity_with_floor(shifted, -1, floor) ELSE shifted
  BY <1>3 DEF FlagSeverity, Acknowledged
<1> HIDE DEF floor, base, known
<1>5. Least(modulated)
  <2>1. severity_u8[base] >= 1 /\ severity_u8[base] \in 0..4 /\ (known => severity_u8[base] = 4)
    BY <1>2, Scale DEF Levels
  <2>2. "Low" \in Levels
    BY DEF Levels
  <2>3. CASE h <= 1
    <3>1. modulated = shift_severity_with_floor(base, -1, "Low")
      BY <2>3 DEF modulate_by_stack_height
    <3> QED
      BY <1>1, <1>2, <2>1, <2>2, <3>1, ShiftFacts, Scale
  <2>4. CASE h = 2
    BY <1>1, <1>2, <2>1, <2>4 DEF modulate_by_stack_height
  <2>5. CASE h > 2
    <3>1. modulated = shift_severity(base, 1)
      BY <2>5 DEF modulate_by_stack_height
    <3> QED
      BY <1>1, <1>2, <2>1, <2>2, <3>1, ShiftFacts, Scale
  <2> QED
    BY <2>3, <2>4, <2>5
<1> HIDE DEF modulated
<1>6. Least(shifted)
  <2>1. /\ shift_severity(modulated, 1) \in Levels
        /\ severity_u8[shift_severity(modulated, 1)] >= severity_u8[modulated]
    BY <1>1, <1>5, ShiftFacts
  <2>2. /\ severity_u8[shift_severity(modulated, 1)] \in 0..4 /\ severity_u8[modulated] \in 0..4
        /\ severity_u8[floor] \in 0..4
    BY <1>1, <1>5, <2>1, Scale
  <2> QED
    BY <1>5, <2>1, <2>2
<1> HIDE DEF shifted
<1>7. Least(FlagSeverity(call, h, nonce, intent))
  BY <1>1, <1>4, <1>6, ShiftFacts
<1> QED
  BY <1>1, <1>7, Scale DEF known

\* The calls of a graph the checker flags.
FlaggedIn(graph) == {i \in DOMAIN graph : match_call(graph[i].call) # NoFlag}

\* The check fails when a call matches, at least as severely as for each such call.
LEMMA AuthorityFacts ==
  ASSUME NEW graph, \A i \in DOMAIN graph : graph[i].height \in Nat, NEW instructions, NEW intent
  PROVE  /\ authority_check(graph, instructions, intent).severity \in Levels
         /\ authority_check(graph, instructions, intent).passed <=> FlaggedIn(graph) = {}
         /\ FlaggedIn(graph) = {} =>
               authority_check(graph, instructions, intent).severity = "None"
         /\ \A i \in FlaggedIn(graph) :
               severity_u8[authority_check(graph, instructions, intent).severity]
                 >= severity_u8[FlagSeverity(graph[i].call, graph[i].height,
                                             has_durable_nonce_precursor(instructions), intent)]
         /\ FlaggedIn(graph) # {} => \E i \in FlaggedIn(graph) :
               severity_u8[authority_check(graph, instructions, intent).severity]
                 = severity_u8[FlagSeverity(graph[i].call, graph[i].height,
                                            has_durable_nonce_precursor(instructions), intent)]
<1> DEFINE nonce == has_durable_nonce_precursor(instructions)
           flagged == FlaggedIn(graph)
           Level(i) == severity_u8[FlagSeverity(graph[i].call, graph[i].height, nonce, intent)]
           levels == {Level(i) : i \in flagged}
           top == CHOOSE n \in levels : \A k \in levels : k <= n
<1>0. authority_check(graph, instructions, intent)
        = [passed   |-> flagged = {},
           severity |-> IF flagged = {} THEN "None" ELSE severity_from_u8[top]]
  <2> DEFINE nodes == {n \in {graph[i] : i \in DOMAIN graph} : match_call(n.call) # NoFlag}
             heights == {severity_u8[FlagSeverity(n.call, n.height, nonce, intent)] : n \in nodes}
             highest == CHOOSE n \in heights : \A k \in heights : k <= n
  <2>1. authority_check(graph, instructions, intent)
          = [passed   |-> nodes = {},
             severity |-> IF nodes = {} THEN "None" ELSE severity_from_u8[highest]]
    BY DEF authority_check
  <2>2. nodes = {} <=> flagged = {}
    BY DEF FlaggedIn
  <2>3. heights = levels
    <3> HIDE DEF nonce
    <3>1. ASSUME NEW n \in nodes PROVE \E i \in flagged : n = graph[i]
      BY DEF FlaggedIn
    <3>2. ASSUME NEW i \in flagged PROVE graph[i] \in nodes
      BY DEF FlaggedIn
    <3> HIDE DEF nodes, flagged
    <3> QED
      BY <3>1, <3>2
  <2>4. highest = top
    <3> HIDE DEF heights, levels
    <3> QED
      BY <2>3
  <2> HIDE DEF nodes, flagged, highest, top
  <2> QED
    BY <2>1, <2>2, <2>4
<1>1. /\ authority_check(graph, instructions, intent).severity
           = IF flagged = {} THEN "None" ELSE severity_from_u8[top]
      /\ authority_check(graph, instructions, intent).passed <=> flagged = {}
  <2> DEFINE none == flagged = {}
             level == IF flagged = {} THEN "None" ELSE severity_from_u8[top]
             result == authority_check(graph, instructions, intent)
  <2>1. result = [passed |-> none, severity |-> level]
    BY <1>0
  <2> HIDE DEF flagged, top, result, none, level
  <2>2. result.passed = none
    BY <2>1, Zenon
  <2>3. result.severity = level
    BY <2>1, Zenon
  <2>4. none \in BOOLEAN
    BY DEF none
  <2>5. result.passed <=> none
    BY <2>2, <2>4, Zenon
  <2> QED
    BY <2>3, <2>5, Zenon DEF result, none, level
<1>2. nonce \in BOOLEAN
  BY DEF has_durable_nonce_precursor
<1> HIDE DEF nonce
<1>3. \A i \in flagged : Level(i) \in 0..4
  <2> SUFFICES ASSUME NEW i \in flagged PROVE Level(i) \in 0..4
    OBVIOUS
  <2>1. match_call(graph[i].call) # NoFlag /\ graph[i].height \in Nat
    BY DEF FlaggedIn
  <2> QED
    BY <1>2, <2>1, FlagSeverityFacts, Scale
<1> HIDE DEF Level
<1>4. levels \subseteq 0..4
  BY <1>3
<1>5. CASE flagged = {}
  BY <1>1, <1>5 DEF Levels
<1>6. CASE flagged # {}
  <2>1. levels # {}
    BY <1>6
  <2> HIDE DEF levels, flagged
  <2>2. \E n \in levels : \A k \in levels : k <= n
    <3>1. CASE 4 \in levels
      BY <1>4, <3>1
    <3>2. CASE 4 \notin levels /\ 3 \in levels
      BY <1>4, <3>2
    <3>3. CASE 4 \notin levels /\ 3 \notin levels /\ 2 \in levels
      BY <1>4, <3>3
    <3>4. CASE 4 \notin levels /\ 3 \notin levels /\ 2 \notin levels /\ 1 \in levels
      BY <1>4, <3>4
    <3>5. CASE 4 \notin levels /\ 3 \notin levels /\ 2 \notin levels /\ 1 \notin levels
      <4>1. \A k \in levels : k = 0
        BY <1>4, <3>5
      <4> QED
        BY <2>1, <4>1
    <3> QED
      BY <3>1, <3>2, <3>3, <3>4, <3>5
  <2>3. top \in levels /\ \A k \in levels : k <= top
    BY <2>2
  <2> HIDE DEF top
  <2>4. /\ authority_check(graph, instructions, intent).severity = severity_from_u8[top]
        /\ ~authority_check(graph, instructions, intent).passed
    BY <1>1, <1>6
  <2>5. top \in 0..4
    BY <1>4, <2>3
  <2>6. severity_from_u8[top] \in Levels /\ severity_u8[severity_from_u8[top]] = top
    BY <2>5, Scale
  <2>7. /\ \A i \in flagged : Level(i) <= top
        /\ \E i \in flagged : Level(i) = top
    BY <2>3 DEF levels
  <2> QED
    BY <1>3, <1>6, <2>4, <2>5, <2>6, <2>7 DEF Level, nonce, flagged
<1> QED
  BY <1>5, <1>6

\* What the checker sees of a simulation.
LEMMA AuthorityOnTrace ==
  ASSUME SimTypes, NEW intent
  PROVE  /\ Authority(intent).severity \in Levels
         /\ \A i \in DOMAIN extract_cpi_graph :
               match_call(extract_cpi_graph[i].call) # NoFlag =>
                  /\ ~Authority(intent).passed
                  /\ severity_u8[Authority(intent).severity] >= 1
                  /\ lookup_known_protocol_in_call(extract_cpi_graph[i].call) =>
                        severity_u8[Authority(intent).severity] >= 3
<1> DEFINE graph == extract_cpi_graph
           words == Words(intent)
           check == authority_check(graph, tx, words)
           nonce == has_durable_nonce_precursor(tx)
<1>1. \A i \in DOMAIN graph : graph[i].height \in Nat
  <2> DEFINE Node == [call : Instructions, index : Nat, height : Nat]
  <2>1. graph \in Seq(Node)
    BY GraphFacts DEF GraphShape
  <2> HIDE DEF graph, Node
  <2>2. \A i \in DOMAIN graph : graph[i] \in Node
    BY <2>1
  <2> QED
    BY <2>2 DEF Node
<1>2. nonce \in BOOLEAN
  BY DEF has_durable_nonce_precursor
<1>3. Authority(intent) = check
  BY DEF Authority
<1> HIDE DEF graph, words, nonce
<1>4. /\ check.severity \in Levels
      /\ check.passed <=> FlaggedIn(graph) = {}
      /\ \A i \in FlaggedIn(graph) :
            severity_u8[check.severity]
              >= severity_u8[FlagSeverity(graph[i].call, graph[i].height, nonce, words)]
  BY <1>1, AuthorityFacts DEF nonce
<1> HIDE DEF check
<1>5. ASSUME NEW i \in DOMAIN graph, match_call(graph[i].call) # NoFlag
      PROVE  /\ ~check.passed /\ severity_u8[check.severity] >= 1
             /\ lookup_known_protocol_in_call(graph[i].call) => severity_u8[check.severity] >= 3
  <2> DEFINE level == FlagSeverity(graph[i].call, graph[i].height, nonce, words)
  <2>1. /\ level \in Levels /\ severity_u8[level] >= 1
        /\ lookup_known_protocol_in_call(graph[i].call) => severity_u8[level] >= 3
    BY <1>1, <1>2, <1>5, FlagSeverityFacts
  <2> HIDE DEF level
  <2>2. i \in FlaggedIn(graph)
    BY <1>5 DEF FlaggedIn
  <2>3. severity_u8[check.severity] >= severity_u8[level]
    BY <1>4, <2>2 DEF level
  <2>4. severity_u8[check.severity] \in 0..4 /\ severity_u8[level] \in 0..4
    BY <1>4, <2>1, Scale
  <2>5. ~check.passed
    BY <1>4, <2>2
  <2> QED
    BY <2>1, <2>3, <2>4, <2>5
<1> QED
  BY <1>3, <1>4, <1>5 DEF graph

\* The simulation keeps its types.
LEMMA SimTypesHold == Spec => []SimTypes
<1>1. Init => SimTypes
  BY SimTypesInit
<1>2. SimTypes /\ [Next]_vars => SimTypes'
  BY SimTypesStep
<1> QED
  BY <1>1, <1>2, PTL DEF Spec

\* An authority change among the signed instructions is reported wherever the simulation
\* stopped (executor.rs layer 1, authority_diff.rs).
THEOREM SignedChangeIsReported == Spec => []SignedChangeAlwaysReported
<1>1. SimTypes => SignedChangeAlwaysReported
  <2> SUFFICES ASSUME SimTypes, NEW j \in DOMAIN tx, match_call(tx[j]) # NoFlag, NEW intent \in Intents
               PROVE  ~Authority(intent).passed /\ Authority(intent).severity # "None"
    BY DEF SignedChangeAlwaysReported
  <2>1. j \in 1..Len(tx) /\ Len(tx) \in Nat /\ Len(inner) \in Nat
    BY GraphFacts DEF SimTypes, GraphShape
  <2>2. j \in DOMAIN extract_cpi_graph /\ extract_cpi_graph[j].call = tx[j]
    <3>1. /\ DOMAIN extract_cpi_graph = 1..(Len(tx) + Len(inner))
          /\ extract_cpi_graph[j] = [call |-> tx[j], index |-> j, height |-> 1]
      BY <2>1, GraphFacts DEF GraphShape
    <3> QED
      BY <2>1, <3>1
  <2>3. ~Authority(intent).passed /\ severity_u8[Authority(intent).severity] >= 1
    BY <2>2, AuthorityOnTrace
  <2> QED
    BY <2>3, Scale
<1> QED
  BY <1>1, SimTypesHold, PTL

\* The intent checker's levels.
LEMMA ParseFacts ==
  ASSUME NEW tokens, NEW p, p = parse_intent_goal(tokens), p # Unrecognized
  PROVE  /\ p.kind \in {"Swap", "Transfer", "Deposit"}
         /\ \E w \in DOMAIN ParsedAmounts : p.amount = ParsedAmounts[w]
<1>1. ASSUME NEW kind, NEW preposition, ParsePattern(tokens, kind, preposition) # Unrecognized
      PROVE  /\ ParsePattern(tokens, kind, preposition).kind = kind
             /\ tokens[2] \in DOMAIN ParsedAmounts
             /\ ParsePattern(tokens, kind, preposition).amount = ParsedAmounts[tokens[2]]
  BY <1>1 DEF ParsePattern
<1>2. \/ p = ParsePattern(tokens, "Swap", "for")
      \/ p = ParsePattern(tokens, "Transfer", "to")
      \/ p = ParsePattern(tokens, "Deposit", "into")
  BY DEF parse_intent_goal
<1> QED
  BY <1>1, <1>2

LEMMA IntentSeverity ==
  ASSUME NEW trace, NEW intent \in Intents
  PROVE  intent_check(trace, intent).severity \in {"None", "High"}
<1> DEFINE Result == {passed_noop, inconclusive, failed}
<1>1. \A r \in Result : r.severity \in {"None", "High"}
  BY DEF passed_noop, inconclusive, failed
<1>2. \A amount, mint_in, mint_out, min_out :
         verify_swap(trace, amount, mint_in, mint_out, min_out) \in Result
  BY DEF verify_swap
<1>3. \A amount, mint : /\ verify_transfer(trace, amount, mint) \in Result
                        /\ verify_deposit(trace, amount, mint) \in Result
  BY DEF verify_transfer, verify_deposit
<1>4. ASSUME NEW spec, spec.kind \in {"Swap", "Transfer", "Deposit"}
      PROVE  verify_spec(trace, spec) \in Result
  BY <1>2, <1>3, <1>4 DEF verify_spec
<1>5. ASSUME NEW tokens PROVE verify_from_text(trace, parse_intent_goal(tokens)) \in Result
  <2> DEFINE p == parse_intent_goal(tokens)
  <2>1. CASE p = Unrecognized
    <3>1. p.kind = "Unrecognized"
      BY <2>1 DEF Unrecognized
    <3> HIDE DEF p
    <3> QED
      BY <3>1 DEF verify_from_text, p
  <2>2. CASE p # Unrecognized
    <3>1. p.kind \in {"Swap", "Transfer", "Deposit"}
      BY <2>2, ParseFacts
    <3> HIDE DEF p
    <3>2. verify_from_text(trace, p) \in Result
      BY <1>2, <1>3, <3>1 DEF verify_from_text
    <3> QED
      BY <3>2 DEF p
  <2> QED
    BY <2>1, <2>2
<1> HIDE DEF Result
<1>6. CASE intent = {}
  BY <1>6 DEF intent_check, passed_noop
<1>7. CASE intent # {}
  <2> DEFINE i == CHOOSE j \in intent : TRUE
  <2>1. i \in intent
    BY <1>7
  <2>2. intent_check(trace, intent)
          = IF i.spec # {} THEN verify_spec(trace, CHOOSE spec \in i.spec : TRUE)
            ELSE verify_from_text(trace, parse_intent_goal(i.description))
    BY <1>7 DEF intent_check
  <2> HIDE DEF i
  <2>3. CASE i.spec # {}
    <3>1. PICK spec \in i.spec : spec = CHOOSE other \in i.spec : TRUE
      BY <2>3
    <3>2. spec.kind \in {"Swap", "Transfer", "Deposit"}
      BY <2>1, IntentsAssumption
    <3> QED
      BY <1>1, <1>4, <2>2, <2>3, <3>1, <3>2
  <2>4. CASE i.spec = {}
    BY <1>1, <1>5, <2>2, <2>4
  <2> QED
    BY <2>3, <2>4
<1> QED
  BY <1>6, <1>7

\* A change of the authority of a known protocol is never approved: at every stack
\* height, whatever the intent says (authority_diff.rs's floor, scorer_stub.rs).
THEOREM KnownAuthorityChangeIsHeld == Spec => []KnownAuthorityChangeNeverApproved
<1>1. SimTypes => KnownAuthorityChangeNeverApproved
  <2> SUFFICES ASSUME SimTypes, NEW j \in DOMAIN extract_cpi_graph,
                      TouchesKnownProtocol(extract_cpi_graph[j].call), NEW intent \in Intents
               PROVE  TraceVerdict(intent, EmptyCache, ReadKeys) # "APPROVE"
    BY DEF KnownAuthorityChangeNeverApproved
  <2> DEFINE a == Authority(intent).severity
             b == Approval.severity
             c == intent_check(SimulationTrace, intent).severity
             d == oracle_check(EmptyCache, ReadKeys).severity
             statuses == <<a, b, c, d>>
             score == compute_safety_score(statuses)
             reported == {statuses[i] : i \in DOMAIN statuses}
  <2>1. TraceVerdict(intent, EmptyCache, ReadKeys) = score_to_verdict(score, reported)
    BY DEF TraceVerdict
  <2>2. a \in Levels /\ severity_u8[a] >= 3
    BY AuthorityOnTrace DEF TouchesKnownProtocol
  <2>3. a \in {"High", "Critical"}
    <3> HIDE DEF a
    <3> QED
      BY <2>2, Scale DEF Levels
  <2>4. b \in {"None", "High"}
    BY DEF Approval, approval_check
  <2>5. c \in {"None", "High"}
    BY IntentSeverity
  <2>6. d \in {"None", "Critical", "High", "Medium"}
    BY DEF oracle_check
  <2> HIDE DEF a, b, c, d
  <2>7. statuses \in Seq(CheckerStatus) /\ Len(statuses) = 4 /\ statuses[1] = a
    BY <2>3, <2>4, <2>5, <2>6 DEF CheckerStatus, Severity
  <2> HIDE DEF statuses
  <2>8. score \in Number /\ score.h <= 100 - Penalty(statuses[1])
    <3>1. 1 \in 1..Len(statuses)
      BY <2>7
    <3> QED
      BY <2>7, <3>1, ScoreCoversEveryPenalty, Zenon
  <2>9. Penalty(a) \in {40, 100}
    BY <2>3 DEF Penalty
  <2> HIDE DEF score, reported
  <2>10. score.h \in Int /\ score.h < 70
    BY <2>7, <2>8, <2>9 DEF Number
  <2> QED
    BY <2>1, <2>8, <2>10, VerdictNeedsHundredths
<1> QED
  BY <1>1, SimTypesHold, PTL
----------------------------------------------------------------------------
(* The graph only grows.                                                   *)

LEMMA GraphGrows ==
  ASSUME SimTypes, SimTypes', GraphShape, GraphShape', [Next]_vars
  PROVE  /\ tx' = tx
         /\ DOMAIN extract_cpi_graph \subseteq DOMAIN (extract_cpi_graph')
         /\ \A i \in DOMAIN extract_cpi_graph : extract_cpi_graph'[i] = extract_cpi_graph[i]
<1>1. tx' = tx /\ (inner' = inner \/ \E r : inner' = Append(inner, r))
  BY DEF Next, Invoke, Cpi, Recorded, Fails, Succeeds, vars
<1>2. /\ inner \in Seq([index : Nat, height : Nat, call : Instructions])
      /\ inner' \in Seq([index : Nat, height : Nat, call : Instructions])
  BY DEF SimTypes
<1>3. /\ Len(inner) \in Nat /\ Len(inner') \in Nat /\ Len(inner') >= Len(inner)
      /\ \A i \in 1..Len(inner) : inner'[i] = inner[i]
  <2> DEFINE Record == [index : Nat, height : Nat, call : Instructions]
  <2> HIDE DEF Record
  <2>1. inner \in Seq(Record) /\ inner' \in Seq(Record)
    BY <1>2 DEF Record
  <2> QED
    BY <1>1, <2>1
<1>4. /\ Len(tx) \in Nat
      /\ DOMAIN extract_cpi_graph = 1..(Len(tx) + Len(inner))
      /\ DOMAIN (extract_cpi_graph') = 1..(Len(tx) + Len(inner'))
  BY <1>1 DEF GraphShape
<1>5. ASSUME NEW i \in 1..(Len(tx) + Len(inner))
      PROVE  extract_cpi_graph'[i] = extract_cpi_graph[i]
  <2>1. CASE i \in 1..Len(tx)
    BY <1>1, <2>1 DEF GraphShape
  <2>2. CASE i \notin 1..Len(tx)
    <3>1. PICK j \in 1..Len(inner) : i = Len(tx) + j
      <4>1. i - Len(tx) \in 1..Len(inner) /\ i = Len(tx) + (i - Len(tx))
        BY <1>3, <1>4, <2>2
      <4> QED
        BY <4>1
    <3>2. j \in 1..Len(inner') /\ inner'[j] = inner[j]
      BY <1>3
    <3> DEFINE Node(r) == [call |-> r.call, index |-> r.index, height |-> r.height]
    <3>3. extract_cpi_graph[Len(tx) + j] = Node(inner[j])
      BY DEF GraphShape
    <3>4. extract_cpi_graph'[Len(tx) + j] = Node(inner'[j])
      BY <1>1, <3>2 DEF GraphShape
    <3> QED
      BY <3>1, <3>2, <3>3, <3>4
  <2> QED
    BY <2>1, <2>2
<1> QED
  BY <1>1, <1>3, <1>4, <1>5

\* The longer a simulation runs, the more severe the authority checker's finding: no step
\* of the runtime takes a flag back (executor.rs, authority_diff.rs).
THEOREM ExecutionOnlyHardens == Spec => ExecutionNeverSoftens
<1>1. SimTypes => GraphShape
  BY GraphFacts
<1>2. SimTypes' => GraphShape'
  BY <1>1, PTL
<1>3. ASSUME SimTypes, SimTypes', [Next]_vars
      PROVE  severity_u8[Authority({})'.severity] >= severity_u8[Authority({}).severity]
  <2> DEFINE graph == extract_cpi_graph
             later == extract_cpi_graph'
             words == Words({})
             nonce == has_durable_nonce_precursor(tx)
             Level(g, i) == severity_u8[FlagSeverity(g[i].call, g[i].height, nonce, words)]
             before == authority_check(graph, tx, words)
             after == authority_check(later, tx, words)
  <2>1. GraphShape /\ GraphShape'
    BY <1>1, <1>2, <1>3
  <2>2. /\ tx' = tx /\ DOMAIN graph \subseteq DOMAIN later
        /\ \A i \in DOMAIN graph : later[i] = graph[i]
    BY <1>3, <2>1, GraphGrows
  <2>3. Authority({}) = before /\ Authority({})' = after
    BY <2>2 DEF Authority, Words
  <2>4. graph \in Seq([call : Instructions, index : Nat, height : Nat])
        /\ later \in Seq([call : Instructions, index : Nat, height : Nat])
    BY <2>1 DEF GraphShape
  <2>5. /\ \A i \in DOMAIN graph : graph[i].height \in Nat
        /\ \A i \in DOMAIN later : later[i].height \in Nat
    <3> DEFINE Node == [call : Instructions, index : Nat, height : Nat]
    <3> HIDE DEF Node, graph, later
    <3>1. graph \in Seq(Node) /\ later \in Seq(Node)
      BY <2>4 DEF Node
    <3>2. /\ \A i \in DOMAIN graph : graph[i] \in Node
          /\ \A i \in DOMAIN later : later[i] \in Node
      BY <3>1
    <3> QED
      BY <3>2 DEF Node
  <2> HIDE DEF graph, later, words, nonce
  <2>6. /\ before.severity \in Levels /\ after.severity \in Levels
        /\ FlaggedIn(graph) = {} => before.severity = "None"
        /\ FlaggedIn(graph) # {} =>
              \E i \in FlaggedIn(graph) : severity_u8[before.severity] = Level(graph, i)
        /\ \A i \in FlaggedIn(later) : severity_u8[after.severity] >= Level(later, i)
    BY <2>5, AuthorityFacts DEF nonce
  <2>7. severity_u8[before.severity] \in 0..4 /\ severity_u8[after.severity] \in 0..4
    BY <2>6, Scale
  <2> HIDE DEF before, after
  <2>8. CASE FlaggedIn(graph) = {}
    BY <2>3, <2>6, <2>7, <2>8, Scale
  <2>9. CASE FlaggedIn(graph) # {}
    <3>1. PICK i \in FlaggedIn(graph) : severity_u8[before.severity] = Level(graph, i)
      BY <2>6, <2>9
    <3>2. i \in FlaggedIn(later) /\ later[i] = graph[i]
      BY <2>2, <3>1 DEF FlaggedIn
    <3>3. Level(later, i) = Level(graph, i)
      BY <3>2
    <3> QED
      BY <2>3, <2>6, <3>1, <3>2, <3>3
  <2> QED
    BY <2>8, <2>9
<1> QED
  BY <1>3, SimTypesHold, PTL DEF Spec, ExecutionNeverSoftens
----------------------------------------------------------------------------
(* The intent checker after a failed simulation.                           *)

\* A failed simulation moves nothing.
LEMMA FailureMovesNothing ==
  ASSUME sim = "failed", NEW mint
  PROVE  sum_mint_delta(SimulationTrace, mint) = 0
<1>1. /\ SimulationTrace.token_balance_deltas = {}
      /\ SimulationTrace.balance_deltas = <<>>
  BY DEF SimulationTrace
<1>2. {d \in SimulationTrace.token_balance_deltas : d.mint = mint} = {}
  BY <1>1
<1>3. DOMAIN SimulationTrace.balance_deltas = {}
  BY <1>1
<1>4. MapThenSumSet(LAMBDA d : d.delta, {}) = 0
  BY DEF MapThenSumSet, MapThenFoldSet
<1>5. MapThenSumSet(LAMBDA k : SimulationTrace.balance_deltas[k], {}) = 0
  BY DEF MapThenSumSet, MapThenFoldSet
<1>6. /\ MapThenSumSet(LAMBDA d : d.delta,
                       {d \in SimulationTrace.token_balance_deltas : d.mint = mint}) = 0
      /\ MapThenSumSet(LAMBDA k : SimulationTrace.balance_deltas[k],
                       DOMAIN SimulationTrace.balance_deltas) = 0
  BY <1>2, <1>3, <1>4, <1>5
<1> QED
  BY <1>6 DEF sum_mint_delta

\* No change is within the tolerance of an outflow of at least one raw unit, unless its
\* product with the tolerance saturates.
LEMMA NothingIsNoOutflow ==
  ASSUME NEW amount \in 1..I128_MAX, NEW bps \in {10, 100},
         saturating_mul(amount, bps) < I128_MAX
  PROVE  ~within_tolerance(0, -amount, bps)
<1> DEFINE max == I128_MAX
<1>1. max \in Nat
  BY RegistryAssumption
<1>2. AbsOf(0 - (-amount)) = amount /\ AbsOf(-amount) = amount /\ 0 - (-amount) = amount
  BY <1>1 DEF AbsOf
<1>3. WrapI128(amount) = amount
  <2>1. \A n \in Nat : \A m \in Nat : n < m => n % m = n
    BY SMT
  <2>2. amount + max + 1 \in Nat /\ 2 * (max + 1) \in Nat /\ amount + max + 1 < 2 * (max + 1)
    BY <1>1
  <2>3. (amount + max + 1) % (2 * (max + 1)) = amount + max + 1
    BY <2>1, <2>2
  <2> QED
    BY <1>1, <2>3 DEF WrapI128
<1>4. Distance(0, -amount) = amount
  <2>1. AbsOf(amount) = amount
    BY DEF AbsOf
  <2> QED
    BY <1>2, <1>3, <2>1 DEF Distance
<1>5. saturating_mul(amount, 10000) > saturating_mul(amount, bps)
  <2>1. /\ amount > max \div 10000 => saturating_mul(amount, 10000) = max
        /\ ~(amount > max \div 10000) => saturating_mul(amount, 10000) = amount * 10000
    <3>1. ~(amount < -(max \div 10000))
      BY <1>1
    <3> QED
      BY <3>1 DEF saturating_mul
  <2>2. CASE bps = 10
    <3>1. ~(amount > max \div 10) /\ ~(amount < -(max \div 10))
      BY <1>1, <2>2 DEF saturating_mul
    <3>2. saturating_mul(amount, bps) = amount * 10
      BY <2>2, <3>1 DEF saturating_mul
    <3> QED
      BY <1>1, <2>1, <3>2
  <2>3. CASE bps = 100
    <3>1. ~(amount > max \div 100) /\ ~(amount < -(max \div 100))
      BY <1>1, <2>3 DEF saturating_mul
    <3>2. saturating_mul(amount, bps) = amount * 100
      BY <2>3, <3>1 DEF saturating_mul
    <3> QED
      BY <1>1, <2>1, <3>2
  <2> QED
    BY <2>2, <2>3
<1>6. saturating_mul(amount, 10000) \in Int /\ saturating_mul(amount, bps) \in Int
  BY <1>1 DEF saturating_mul
<1> QED
  BY <1>2, <1>4, <1>5, <1>6 DEF within_tolerance

\* A u64 has a product with every tolerance.
LEMMA SpecifiedCompares ==
  ASSUME NEW amount \in 0..(I128_MAX \div 10000), amount > 0, NEW bps \in {10, 100}
  PROVE  amount \in 1..I128_MAX /\ saturating_mul(amount, bps) < I128_MAX
<1> DEFINE max == I128_MAX
<1>1. max \in Nat /\ amount \in Int /\ 1 <= amount /\ amount * 10000 <= max
  BY RegistryAssumption
<1>2. CASE bps = 10
  <2>1. ~(amount > max \div 10) /\ ~(amount < -(max \div 10))
    BY <1>1
  <2> QED
    BY <1>1, <1>2, <2>1 DEF saturating_mul
<1>3. CASE bps = 100
  <2>1. ~(amount > max \div 100) /\ ~(amount < -(max \div 100))
    BY <1>1
  <2> QED
    BY <1>1, <1>3, <2>1 DEF saturating_mul
<1> QED
  BY <1>2, <1>3

\* to_raw_units gives an i128.
LEMMA RawUnits ==
  ASSUME NEW w \in DOMAIN ParsedAmounts, NEW s \in DOMAIN TOKEN_REGISTRY
  PROVE  to_raw_units(ParsedAmounts[w], TOKEN_REGISTRY[s].decimals) \in 0..I128_MAX
<1> DEFINE a == ParsedAmounts[w]
           scale == 10^(TOKEN_REGISTRY[s].decimals)
           scaled == 2 * a.num * scale + a.den
           raw == scaled \div (2 * a.den)
<1>1. a.num \in Nat /\ a.den \in Nat /\ a.den > 0 /\ scale \in Nat /\ I128_MAX \in Nat
  BY RegistryAssumption
<1>2. to_raw_units(a, TOKEN_REGISTRY[s].decimals) = IF raw > I128_MAX THEN I128_MAX ELSE raw
  BY DEF to_raw_units
<1> HIDE DEF a, scale
<1>3. scaled \in Nat /\ 2 * a.den \in Nat /\ 2 * a.den > 0
  BY <1>1, SMT
<1> HIDE DEF scaled
<1>4. raw \in Nat
  <2>1. \A n \in Nat : \A m \in Nat : m > 0 => n \div m \in Nat
    BY SMT
  <2> QED
    BY <1>3, <2>1
<1> HIDE DEF raw
<1> QED
  BY <1>1, <1>2, <1>4 DEF a

\* intent_diff.rs confirms no stated outflow on the trace of a failed simulation, unless
\* the outflow was written as an amount that rounds to no raw unit or saturates.
THEOREM FailureConfirmsNothing == Spec => []FailedSimulationConfirmsNothing
<1>1. FailedSimulationConfirmsNothing
  <2> SUFFICES ASSUME sim = "failed", NEW intent \in Intents, NEW i \in intent, StatesOutflow(i)
               PROVE  ~intent_check(SimulationTrace, intent).passed
    BY DEF FailedSimulationConfirmsNothing
  <2> DEFINE trace == SimulationTrace
  <2>1. \A mint : sum_mint_delta(trace, mint) = 0
    BY FailureMovesNothing
  <2> HIDE DEF trace
  <2>2. failed.passed = FALSE
    BY DEF failed
  <2>3. ASSUME NEW amount, NEW a, NEW b, NEW c
        PROVE  /\ verify_swap(trace, amount, a, b, c) = failed
               /\ amount \in 1..I128_MAX /\ saturating_mul(amount, TRANSFER_TOLERANCE_BPS) < I128_MAX
                     => verify_transfer(trace, amount, a) = failed
               /\ amount \in 1..I128_MAX /\ saturating_mul(amount, DEPOSIT_TOLERANCE_BPS) < I128_MAX
                     => verify_deposit(trace, amount, a) = failed
    <3>1. verify_swap(trace, amount, a, b, c) = failed
      BY <2>1 DEF verify_swap
    <3>2. ASSUME amount \in 1..I128_MAX, saturating_mul(amount, 10) < I128_MAX
          PROVE  verify_transfer(trace, amount, a) = failed
      <4>1. ~within_tolerance(0, -amount, 10)
        BY <3>2, NothingIsNoOutflow
      <4> QED
        BY <2>1, <4>1 DEF verify_transfer, TRANSFER_TOLERANCE_BPS
    <3>3. ASSUME amount \in 1..I128_MAX, saturating_mul(amount, 100) < I128_MAX
          PROVE  verify_deposit(trace, amount, a) = failed
      <4>1. ~within_tolerance(0, -amount, 100)
        BY <3>3, NothingIsNoOutflow
      <4> QED
        BY <2>1, <4>1 DEF verify_deposit, DEPOSIT_TOLERANCE_BPS
    <3> QED
      BY <3>1, <3>2, <3>3 DEF TRANSFER_TOLERANCE_BPS, DEPOSIT_TOLERANCE_BPS
  <2>4. (CHOOSE j \in intent : TRUE) = i /\ intent # {}
    BY IntentsAssumption
  <2>5. intent_check(trace, intent)
          = IF i.spec # {} THEN verify_spec(trace, CHOOSE spec \in i.spec : TRUE)
            ELSE verify_from_text(trace, parse_intent_goal(i.description))
    <3> DEFINE stated == CHOOSE j \in intent : TRUE
    <3>1. intent_check(trace, intent)
            = IF stated.spec # {} THEN verify_spec(trace, CHOOSE spec \in stated.spec : TRUE)
              ELSE verify_from_text(trace, parse_intent_goal(stated.description))
      BY <2>4 DEF intent_check
    <3> HIDE DEF stated
    <3>2. stated = i
      BY <2>4 DEF stated
    <3> QED
      BY <3>1, <3>2
  <2>6. CASE i.spec # {}
    <3>1. PICK spec \in i.spec : TRUE
      BY <2>6
    <3>2. /\ (CHOOSE other \in i.spec : TRUE) = spec
          /\ spec.amount \in 0..(I128_MAX \div 10000)
          /\ spec.kind \in {"Swap", "Transfer", "Deposit"}
      BY <3>1, IntentsAssumption
    <3>3. spec.amount > 0
      BY <2>6, <3>1 DEF StatesOutflow
    <3>4. verify_spec(trace, spec) = failed
      <4>1. /\ spec.amount \in 1..I128_MAX
            /\ saturating_mul(spec.amount, TRANSFER_TOLERANCE_BPS) < I128_MAX
            /\ saturating_mul(spec.amount, DEPOSIT_TOLERANCE_BPS) < I128_MAX
        BY <3>2, <3>3, SpecifiedCompares DEF TRANSFER_TOLERANCE_BPS, DEPOSIT_TOLERANCE_BPS
      <4> QED
        BY <2>3, <3>2, <4>1 DEF verify_spec
    <3> QED
      BY <2>2, <2>5, <2>6, <3>2, <3>4 DEF trace
  <2>7. CASE i.spec = {}
    <3> DEFINE p == parse_intent_goal(i.description)
               raw == to_raw_units(p.amount, TOKEN_REGISTRY[p.token].decimals)
    <3>1. /\ p # Unrecognized /\ p.token \in DOMAIN TOKEN_REGISTRY
          /\ CASE p.kind = "Swap" -> p.rest \in DOMAIN TOKEN_REGISTRY
               [] p.kind = "Transfer" -> ComparesWithNothing(raw, TRANSFER_TOLERANCE_BPS)
               [] p.kind = "Deposit" -> ComparesWithNothing(raw, DEPOSIT_TOLERANCE_BPS)
      BY <2>7 DEF StatesOutflow
    <3>2. /\ p.kind \in {"Swap", "Transfer", "Deposit"}
          /\ \E w \in DOMAIN ParsedAmounts : p.amount = ParsedAmounts[w]
      BY <3>1, ParseFacts
    <3> HIDE DEF p
    <3>3. raw \in 0..I128_MAX
      <4>1. PICK w \in DOMAIN ParsedAmounts : p.amount = ParsedAmounts[w]
        BY <3>2
      <4>2. to_raw_units(ParsedAmounts[w], TOKEN_REGISTRY[p.token].decimals) \in 0..I128_MAX
        BY <3>1, RawUnits
      <4> QED
        BY <4>1, <4>2
    <3> DEFINE mint == TOKEN_REGISTRY[p.token].mint
               mint_out == TOKEN_REGISTRY[p.rest].mint
    <3>4. /\ p.kind = "Swap" => verify_from_text(trace, p) = verify_swap(trace, raw, mint, mint_out, 0)
          /\ p.kind = "Transfer" => verify_from_text(trace, p) = verify_transfer(trace, raw, mint)
          /\ p.kind = "Deposit" => verify_from_text(trace, p) = verify_deposit(trace, raw, mint)
      BY <3>1, <3>2 DEF verify_from_text, Unrecognized
    <3> HIDE DEF raw, mint, mint_out
    <3>6. I128_MAX \in Nat
      BY RegistryAssumption
    <3>7. ASSUME p.kind = "Swap" PROVE verify_from_text(trace, p) = failed
      BY <2>3, <3>4, <3>7
    <3>8. ASSUME p.kind = "Transfer" PROVE verify_from_text(trace, p) = failed
      <4>1. raw > 0 /\ saturating_mul(raw, TRANSFER_TOLERANCE_BPS) < I128_MAX
        BY <3>1, <3>8 DEF ComparesWithNothing
      <4> QED
        BY <2>3, <3>3, <3>4, <3>6, <3>8, <4>1
    <3>9. ASSUME p.kind = "Deposit" PROVE verify_from_text(trace, p) = failed
      <4>1. raw > 0 /\ saturating_mul(raw, DEPOSIT_TOLERANCE_BPS) < I128_MAX
        BY <3>1, <3>9 DEF ComparesWithNothing
      <4> QED
        BY <2>3, <3>3, <3>4, <3>6, <3>9, <4>1
    <3>5. verify_from_text(trace, p) = failed
      BY <3>2, <3>7, <3>8, <3>9
    <3> QED
      BY <2>2, <2>5, <2>7, <3>5 DEF trace, p
  <2> QED
    BY <2>6, <2>7
<1> QED
  BY <1>1, PTL
----------------------------------------------------------------------------
(* Approvals.                                                              *)

\* An unlimited approval of d for the source account s, and a Revoke of it.
IsApproval(call, s, d) ==
    /\ call.program \in SplToken /\ call.op \in {"Approve", "ApproveChecked"} /\ call.unlimited
    /\ Len(call.accounts) >= DelegateAt(call)
    /\ call.accounts[1] = s /\ call.accounts[DelegateAt(call)] = d

IsRevoke(call, s) ==
    /\ call.program \in SplToken /\ call.op = "Revoke"
    /\ call.accounts # <<>> /\ call.accounts[1] = s

\* What stands was approved by an instruction or an inner call, and nothing in the same
\* layer revoked it since.
GrantIsListed(s) ==
    IF grants[s].height = 1
    THEN \E i \in 1..at : /\ IsApproval(tx[i], s, grants[s].delegate)
                          /\ \A j \in (i + 1)..at : ~IsRevoke(tx[j], s)
    ELSE \E i \in 1..Len(inner) :
            /\ IsApproval(inner[i].call, s, grants[s].delegate)
            /\ \A j \in (i + 1)..Len(inner) : ~IsRevoke(inner[j].call, s)

GrantsAreListed ==
    sim # "failed" => \A s \in Sources : grants[s] # NoGrant => GrantIsListed(s)

\* What one call does to the grant of one source account.
LEMMA GrantedFacts ==
  ASSUME SimTypes, NEW call \in Instructions, Len(call.accounts) >= Operands(call),
         NEW s \in Sources, NEW h, NEW g, g = Granted(call, h)[s]
  PROVE  \/ g = NoGrant
         \/ g.height = h /\ IsApproval(call, s, g.delegate)
         \/ g = grants[s] /\ ~IsRevoke(call, s)
<1>1. call \in CpiCall /\ DOMAIN grants = Sources
  BY CallsAreTyped DEF SimTypes
<1>2. call.accounts \in Seq(Keys) /\ Len(call.accounts) \in Nat
  BY <1>1 DEF CpiCall
<1>3. CASE call.program \in TokenPrograms /\ call.op \in {"Approve", "ApproveChecked"}
  <2>1. /\ ~IsTransfer(call) /\ call.program \in SplToken /\ ~IsRevoke(call, s)
        /\ Operands(call) = DelegateAt(call)
        /\ DelegateOf(call) = call.accounts[DelegateAt(call)]
    BY <1>3 DEF IsTransfer, TokenPrograms, SplToken, IsRevoke, Operands, DelegateAt, DelegateOf
  <2>2. Granted(call, h)
          = [grants EXCEPT ![call.accounts[1]] =
               IF call.unlimited THEN [delegate |-> DelegateOf(call), height |-> h] ELSE NoGrant]
    BY <1>3 DEF Granted
  <2>3. CASE call.accounts[1] = s /\ call.unlimited
    <3>1. g = [delegate |-> DelegateOf(call), height |-> h]
      BY <1>1, <2>2, <2>3
    <3> QED
      BY <1>3, <2>1, <2>3, <3>1 DEF IsApproval
  <2>4. CASE call.accounts[1] = s /\ ~call.unlimited
    BY <1>1, <2>2, <2>4
  <2>5. CASE call.accounts[1] # s
    BY <1>1, <2>1, <2>2, <2>5
  <2> QED
    BY <2>3, <2>4, <2>5
<1>4. CASE call.program \in TokenPrograms /\ call.op = "Revoke"
  <2>1. Granted(call, h) = [grants EXCEPT ![call.accounts[1]] = NoGrant]
    BY <1>4 DEF Granted
  <2>2. CASE call.accounts[1] = s
    BY <1>1, <2>1, <2>2
  <2>3. CASE call.accounts[1] # s
    BY <1>1, <2>1, <2>3 DEF IsRevoke
  <2> QED
    BY <2>2, <2>3
<1>5. CASE ~(call.program \in TokenPrograms /\ call.op \in {"Approve", "ApproveChecked", "Revoke"})
  <2>1. Granted(call, h) = grants
    BY <1>5 DEF Granted
  <2> QED
    BY <1>5, <2>1 DEF IsRevoke, SplToken, TokenPrograms
<1> QED
  BY <1>3, <1>4, <1>5

LEMMA GrantsListedInit == Init => GrantsAreListed
BY DEF Init, GrantsAreListed

LEMMA GrantsListedStep ==
  SimTypes /\ SimTypes' /\ GrantsAreListed /\ [Next]_vars => GrantsAreListed'
<1> SUFFICES ASSUME SimTypes, SimTypes', GrantsAreListed, [Next]_vars PROVE GrantsAreListed'
  OBVIOUS
<1>0. Len(inner) \in Nat /\ Len(tx) \in Nat /\ at \in 0..Len(tx)
  BY DEF SimTypes
<1>1. CASE Invoke
  <2>1. /\ sim = "running" /\ at < Len(tx) /\ at' = at + 1 /\ tx' = tx /\ inner' = inner
        /\ Len(tx[at + 1].accounts) >= Operands(tx[at + 1])
        /\ grants' = Granted(tx[at + 1], 1)
    BY <1>1 DEF Invoke, Executable
  <2>2. PICK n \in Nat : n = at + 1
    BY <1>0
  <2>3. n \in 1..Len(tx) /\ tx[n] \in Instructions /\ at' = n
    BY <1>0, <2>1, <2>2 DEF SimTypes
  <2> SUFFICES ASSUME NEW s \in Sources, grants'[s] # NoGrant PROVE GrantIsListed(s)'
    BY DEF GrantsAreListed
  <2>4. \/ grants'[s].height = 1 /\ IsApproval(tx[n], s, grants'[s].delegate)
        \/ grants'[s] = grants[s] /\ ~IsRevoke(tx[n], s)
    BY <2>1, <2>2, <2>3, GrantedFacts
  <2>5. CASE grants'[s].height = 1 /\ IsApproval(tx[n], s, grants'[s].delegate)
    <3>1. n \in 1..n /\ \A j \in (n + 1)..n : FALSE
      BY <2>3
    <3> QED
      BY <2>1, <2>3, <2>5, <3>1 DEF GrantIsListed
  <2>6. CASE grants'[s] = grants[s] /\ ~IsRevoke(tx[n], s)
    <3>1. GrantIsListed(s)
      BY <2>1, <2>6 DEF GrantsAreListed
    <3>2. CASE grants[s].height = 1
      <4>1. PICK i \in 1..at : /\ IsApproval(tx[i], s, grants[s].delegate)
                               /\ \A j \in (i + 1)..at : ~IsRevoke(tx[j], s)
        BY <3>1, <3>2 DEF GrantIsListed
      <4>2. i \in 1..n /\ \A j \in (i + 1)..n : ~IsRevoke(tx[j], s)
        <5>1. \A j \in (i + 1)..n : j \in (i + 1)..at \/ j = n
          BY <1>0, <2>2
        <5> QED
          BY <1>0, <2>2, <2>6, <4>1, <5>1
      <4> QED
        BY <2>1, <2>3, <2>6, <3>2, <4>1, <4>2 DEF GrantIsListed
    <3>3. CASE grants[s].height # 1
      BY <2>1, <2>6, <3>1, <3>3 DEF GrantIsListed
    <3> QED
      BY <3>2, <3>3
  <2> QED
    BY <2>4, <2>5, <2>6
<1>2. ASSUME NEW call \in Instructions, Cpi(call) PROVE GrantsAreListed'
  <2>1. PICK h \in 1..height : /\ inner' = Recorded(call, h + 1) /\ grants' = Granted(call, h + 1)
    BY <1>2 DEF Cpi
  <2>2. /\ sim = "running" /\ UNCHANGED <<tx, at>>
        /\ Len(call.accounts) >= Operands(call) /\ h + 1 # 1
    BY <1>2 DEF Cpi, Executable
  <2>3. PICK n \in Nat : n = Len(inner) + 1
    BY <1>0
  <2>4. /\ Len(inner') = n /\ inner'[n].call = call
        /\ \A i \in 1..Len(inner) : inner'[i] = inner[i]
    <3> DEFINE Record == [index : Nat, height : Nat, call : Instructions]
               r == [index |-> at, height |-> h + 1, call |-> call]
    <3>1. inner \in Seq(Record) /\ inner' = Append(inner, r) /\ r.call = call
      BY <2>1 DEF SimTypes, Recorded
    <3>2. r \in Record
      BY <1>0, <2>1 DEF SimTypes
    <3> HIDE DEF Record, r
    <3> QED
      BY <2>3, <3>1, <3>2
  <2> SUFFICES ASSUME NEW s \in Sources, grants'[s] # NoGrant PROVE GrantIsListed(s)'
    BY DEF GrantsAreListed
  <2>5. \/ grants'[s].height = h + 1 /\ IsApproval(call, s, grants'[s].delegate)
        \/ grants'[s] = grants[s] /\ ~IsRevoke(call, s)
    BY <2>1, <2>2, GrantedFacts
  <2>6. CASE grants'[s].height = h + 1 /\ IsApproval(call, s, grants'[s].delegate)
    <3>1. n \in 1..n /\ \A j \in (n + 1)..n : FALSE
      BY <1>0, <2>3
    <3> QED
      BY <2>2, <2>4, <2>6, <3>1 DEF GrantIsListed
  <2>7. CASE grants'[s] = grants[s] /\ ~IsRevoke(call, s)
    <3>1. GrantIsListed(s)
      BY <2>2, <2>7 DEF GrantsAreListed
    <3>2. CASE grants[s].height = 1
      BY <2>2, <2>7, <3>1, <3>2 DEF GrantIsListed
    <3>3. CASE grants[s].height # 1
      <4>1. PICK i \in 1..Len(inner) :
                /\ IsApproval(inner[i].call, s, grants[s].delegate)
                /\ \A j \in (i + 1)..Len(inner) : ~IsRevoke(inner[j].call, s)
        BY <3>1, <3>3 DEF GrantIsListed
      <4>2. i \in 1..n /\ inner'[i] = inner[i]
        BY <1>0, <2>3, <2>4
      <4>3. ASSUME NEW j \in (i + 1)..n PROVE ~IsRevoke(inner'[j].call, s)
        <5>1. CASE j = n
          BY <2>4, <2>7, <5>1
        <5>2. CASE j # n
          <6>1. j \in (i + 1)..Len(inner) /\ j \in 1..Len(inner)
            BY <1>0, <2>3, <5>2
          <6> QED
            BY <2>4, <4>1, <6>1
        <5> QED
          BY <5>1, <5>2
      <4> QED
        BY <2>2, <2>4, <2>7, <3>3, <4>1, <4>2, <4>3 DEF GrantIsListed
    <3> QED
      BY <3>2, <3>3
  <2> QED
    BY <2>5, <2>6, <2>7
<1>3. CASE Fails
  BY <1>3 DEF Fails, GrantsAreListed
<1>4. CASE Succeeds \/ UNCHANGED vars
  <2>1. /\ UNCHANGED <<tx, at, inner, grants>>
        /\ sim' # "failed" => sim # "failed"
    BY <1>4 DEF Succeeds, vars
  <2>2. \A s : GrantIsListed(s)' <=> GrantIsListed(s)
    BY <2>1 DEF GrantIsListed
  <2> QED
    BY <2>1, <2>2 DEF GrantsAreListed
<1> QED
  BY <1>1, <1>2, <1>3, <1>4 DEF Next

\* When the transaction has run, the graph lists what stands, with nothing after it that
\* the checker takes for its Revoke, except an inner Revoke after a signed approval.
LEMMA ListedIsFlagged ==
  ASSUME SimTypes, sim = "ok", NEW s \in Sources, GrantIsListed(s),
         grants[s].delegate \notin KnownProtocols
  PROVE  Flagged(s) \/ (grants[s].height = 1 /\ RevokedFromWithin(s))
<1> DEFINE graph == extract_cpi_graph
<1>1. /\ Len(tx) \in Nat /\ Len(inner) \in Nat /\ at = Len(tx)
      /\ DOMAIN graph = 1..(Len(tx) + Len(inner)) /\ Len(graph) = Len(tx) + Len(inner)
      /\ DOMAIN inner = 1..Len(inner)
  BY GraphFacts DEF GraphShape, SimTypes
<1>2. ASSUME NEW i \in 1..Len(tx) PROVE graph[i].call = tx[i]
  <2>1. graph[i] = [call |-> tx[i], index |-> i, height |-> 1]
    BY GraphFacts DEF GraphShape
  <2> HIDE DEF graph
  <2> QED
    BY <2>1
<1>3. ASSUME NEW i \in 1..Len(inner) PROVE graph[Len(tx) + i].call = inner[i].call
  <2>1. graph[Len(tx) + i]
           = [call |-> inner[i].call, index |-> inner[i].index, height |-> inner[i].height]
    BY GraphFacts DEF GraphShape
  <2> HIDE DEF graph
  <2> QED
    BY <2>1
<1>4. ASSUME NEW i \in DOMAIN graph, IsApproval(graph[i].call, s, grants[s].delegate),
             \A j \in (i + 1)..Len(graph) : ~IsRevoke(graph[j].call, s)
      PROVE  Flagged(s)
  <2> HIDE DEF graph
  <2>1. inspect_approve(graph[i].call) /\ graph[i].call.accounts[1] = s
    BY <1>4 DEF inspect_approve, IsApproval
  <2>2. ~revoked_after(graph, i, s)
    BY <1>4 DEF revoked_after, IsRevoke
  <2>3. i \in ApprovalFlags(graph)
    BY <2>1, <2>2 DEF ApprovalFlags
  <2> QED
    BY <2>1, <2>3 DEF Flagged, graph
<1> HIDE DEF graph
<1>5. CASE grants[s].height = 1
  <2>1. PICK i \in 1..Len(tx) : /\ IsApproval(tx[i], s, grants[s].delegate)
                                /\ \A j \in (i + 1)..Len(tx) : ~IsRevoke(tx[j], s)
    BY <1>1, <1>5 DEF GrantIsListed
  <2>2. CASE RevokedFromWithin(s)
    BY <1>5, <2>2
  <2>3. CASE ~RevokedFromWithin(s)
    <3>1. i \in DOMAIN graph /\ IsApproval(graph[i].call, s, grants[s].delegate)
      BY <1>1, <1>2, <2>1
    <3>2. ASSUME NEW j \in (i + 1)..Len(graph) PROVE ~IsRevoke(graph[j].call, s)
      <4>1. CASE j <= Len(tx)
        <5>1. j \in (i + 1)..Len(tx) /\ j \in 1..Len(tx)
          BY <1>1, <4>1
        <5> QED
          BY <1>2, <2>1, <5>1
      <4>2. CASE j > Len(tx)
        <5>1. PICK m \in 1..Len(inner) : j = Len(tx) + m
          <6>1. j - Len(tx) \in 1..Len(inner) /\ j = Len(tx) + (j - Len(tx))
            BY <1>1, <4>2
          <6> QED
            BY <6>1
        <5>2. graph[j].call = inner[m].call /\ m \in DOMAIN inner
          BY <1>1, <1>3, <5>1
        <5> QED
          BY <2>3, <5>2 DEF RevokedFromWithin, IsRevoke
      <4> QED
        BY <1>1, <4>1, <4>2
    <3> QED
      BY <1>4, <3>1, <3>2
  <2> QED
    BY <2>2, <2>3
<1>6. CASE grants[s].height # 1
  <2>1. PICK i \in 1..Len(inner) :
            /\ IsApproval(inner[i].call, s, grants[s].delegate)
            /\ \A j \in (i + 1)..Len(inner) : ~IsRevoke(inner[j].call, s)
    BY <1>6 DEF GrantIsListed
  <2>2. PICK n \in Nat : n = Len(tx) + i
    BY <1>1
  <2>3. n \in DOMAIN graph /\ IsApproval(graph[n].call, s, grants[s].delegate)
    BY <1>1, <1>3, <2>1, <2>2
  <2>4. ASSUME NEW j \in (n + 1)..Len(graph) PROVE ~IsRevoke(graph[j].call, s)
    <3>1. PICK m \in (i + 1)..Len(inner) : j = Len(tx) + m
      <4>1. j - Len(tx) \in (i + 1)..Len(inner) /\ j = Len(tx) + (j - Len(tx))
        BY <1>1, <2>2
      <4> QED
        BY <4>1
    <3>2. m \in 1..Len(inner)
      BY <1>1, <3>1
    <3> QED
      BY <1>3, <2>1, <3>1, <3>2
  <2> QED
    BY <1>4, <2>3, <2>4
<1> QED
  BY <1>5, <1>6

\* An unlimited approval of an unknown delegate that stands at the end is flagged, unless
\* it was signed and an inner call revoked an earlier one (approval_abuse.rs on the order
\* of executor.rs's graph).
THEOREM StandingApprovalIsFlagged == Spec => []StandingApprovalFlaggedInLayer
<1>1. SimTypes /\ GrantsAreListed => StandingApprovalFlaggedInLayer
  BY ListedIsFlagged DEF GrantsAreListed, StandingApprovalFlaggedInLayer, UnknownDelegate
<1>2. Init => GrantsAreListed
  BY GrantsListedInit
<1>3. SimTypes /\ SimTypes' /\ GrantsAreListed /\ [Next]_vars => GrantsAreListed'
  BY GrantsListedStep
<1> QED
  BY <1>1, <1>2, <1>3, SimTypesHold, PTL DEF Spec
----------------------------------------------------------------------------
(* Sums over finite sets.  g holds the sums of f over the subsets of S, as *)
(* MapThenSumSet defines them; the proofs are by a smallest counterexample *)
(* in the number of elements.                                              *)

IsSum(g, f, S) ==
    g = [s \in SUBSET S |-> IF s = {} THEN 0
                            ELSE f[CHOOSE x \in s : TRUE] + g[s \ {CHOOSE x \in s : TRUE}]]

LEMMA SumExists ==
  ASSUME NEW S, IsFiniteSet(S), NEW f
  PROVE  \E g : IsSum(g, f, S)
<1> DEFINE One(s) == CHOOSE x \in s : TRUE
           Value(g, s) == IF s = {} THEN 0 ELSE f[One(s)] + g[s \ {One(s)}]
           UpTo(g, n) == \A s \in SUBSET S : Cardinality(s) <= n => g[s] = Value(g, s)
           Bad == {n \in Nat : ~ \E g : UpTo(g, n)}
<1>1. ASSUME NEW s \in SUBSET S
      PROVE  /\ IsFiniteSet(s) /\ Cardinality(s) \in Nat /\ Cardinality(s) <= Cardinality(S)
             /\ s # {} => /\ One(s) \in s /\ s \ {One(s)} \in SUBSET S
                          /\ Cardinality(s \ {One(s)}) = Cardinality(s) - 1
             /\ s = {} <=> Cardinality(s) = 0
  BY <1>1, FS_Subset, FS_CardinalityType, FS_RemoveElement, FS_EmptySet
<1> HIDE DEF One
<1>2. Bad = {}
  <2> SUFFICES ASSUME Bad # {} PROVE FALSE
    OBVIOUS
  <2> HIDE DEF UpTo
  <2>1. PICK n \in Bad : \A k \in Bad : n <= k
    <3>1. Bad \in SUBSET Nat
      OBVIOUS
    <3> HIDE DEF Bad
    <3> QED
      BY <3>1, LeastNat
  <2>2. n \in Nat /\ ~ \E g : UpTo(g, n)
    BY <2>1
  <2>3. n # 0
    <3> SUFFICES ASSUME n = 0 PROVE \E g : UpTo(g, n)
      BY <2>2
    <3> DEFINE g == [s \in SUBSET S |-> 0]
    <3>1. ASSUME NEW s \in SUBSET S, Cardinality(s) <= 0 PROVE g[s] = Value(g, s)
      <4>1. s = {}
        <5>1. IsFiniteSet(s) /\ Cardinality(s) \in Nat
          BY <1>1
        <5>2. Cardinality(s) = 0
          BY <3>1, <5>1
        <5> QED
          BY <5>1, <5>2, FS_EmptySet
      <4> QED
        BY <4>1
    <3> HIDE DEF g
    <3>2. UpTo(g, n)
      BY <3>1 DEF UpTo
    <3> QED
      BY <3>2
  <2>4. PICK g : UpTo(g, n - 1)
    <3>1. n - 1 \in Nat /\ ~(n <= n - 1)
      BY <2>2, <2>3
    <3>2. n - 1 \notin Bad
      BY <2>1, <3>1
    <3> QED
      BY <3>1, <3>2
  <2> USE DEF UpTo
  <2> DEFINE h == [s \in SUBSET S |-> IF Cardinality(s) <= n - 1 THEN g[s] ELSE Value(g, s)]
  <2>5. ASSUME NEW s \in SUBSET S, Cardinality(s) <= n PROVE h[s] = Value(h, s)
    <3>1. h[s] = Value(g, s)
      BY <2>4
    <3>2. CASE s = {}
      BY <3>1, <3>2
    <3>3. CASE s # {}
      <4>1. s \ {One(s)} \in SUBSET S /\ Cardinality(s \ {One(s)}) <= n - 1
        BY <1>1, <2>2, <2>5, <3>3
      <4>2. h[s \ {One(s)}] = g[s \ {One(s)}]
        BY <4>1
      <4> QED
        BY <3>1, <3>3, <4>2
    <3> QED
      BY <3>2, <3>3
  <2> HIDE DEF h
  <2>6. UpTo(h, n)
    BY <2>5
  <2> QED
    BY <2>2, <2>6
<1>3. PICK g : UpTo(g, Cardinality(S))
  <2>1. Cardinality(S) \in Nat
    BY FS_CardinalityType
  <2> QED
    BY <1>2, <2>1
<1> DEFINE h == [s \in SUBSET S |-> g[s]]
<1>4. ASSUME NEW s \in SUBSET S PROVE h[s] = Value(h, s)
  <2>1. h[s] = Value(g, s)
    BY <1>1, <1>3
  <2>2. CASE s = {}
    BY <2>1, <2>2
  <2>3. CASE s # {}
    <3>1. h[s \ {One(s)}] = g[s \ {One(s)}]
      BY <1>1, <2>3
    <3> QED
      BY <2>1, <2>3, <3>1
  <2> QED
    BY <2>2, <2>3
<1>5. h = [s \in SUBSET S |-> h[s]]
  OBVIOUS
<1> HIDE DEF h
<1>6. h = [s \in SUBSET S |-> Value(h, s)]
  BY <1>4, <1>5
<1>7. IsSum(h, f, S)
  BY <1>6 DEF IsSum, One
<1> QED
  BY <1>7

\* A property of the finite sets of one size at a time: if a set violates it, a smallest
\* one does.
LEMMA SmallestSet ==
  ASSUME NEW B, NEW b0 \in B, \A s \in B : IsFiniteSet(s)
  PROVE  \E s \in B : \A t \in B : Cardinality(s) <= Cardinality(t)
<1> DEFINE Sizes == {Cardinality(s) : s \in B}
<1>1. Sizes \in SUBSET Nat /\ Sizes # {}
  BY FS_CardinalityType
<1> HIDE DEF Sizes
<1>2. PICK n \in Sizes : \A k \in Sizes : n <= k
  BY <1>1, LeastNat
<1> QED
  BY <1>2 DEF Sizes

Integral(f, S) == \A x \in S : f[x] \in Int

\* The sums g of the values f takes on S do not depend on the order of addition.
AnyOrder(g, f, S) ==
    /\ g[{}] = 0
    /\ \A s \in SUBSET S : g[s] \in Int /\ \A x \in s : g[s] = f[x] + g[s \ {x}]

\* Any element can be taken out of a sum.
LEMMA SumTakesOut ==
  ASSUME NEW S, IsFiniteSet(S), NEW f, Integral(f, S), NEW g, IsSum(g, f, S)
  PROVE  AnyOrder(g, f, S)
<1> USE DEF Integral, AnyOrder
<1> DEFINE One(s) == CHOOSE x \in s : TRUE
           Good(s) == g[s] \in Int /\ \A x \in s : g[s] = f[x] + g[s \ {x}]
           Bad == {s \in SUBSET S : ~Good(s)}
<1>1. \A s \in SUBSET S : g[s] = IF s = {} THEN 0 ELSE f[One(s)] + g[s \ {One(s)}]
  BY DEF IsSum
<1>2. g[{}] = 0
  BY <1>1
<1>3. \A s \in SUBSET S : IsFiniteSet(s)
  BY FS_Subset
<1> SUFFICES ASSUME Bad # {} PROVE FALSE
  BY <1>2
<1>4. PICK s \in Bad : \A t \in Bad : Cardinality(s) <= Cardinality(t)
  <2>1. \A t \in Bad : IsFiniteSet(t)
    BY <1>3
  <2> HIDE DEF Bad
  <2> QED
    BY <2>1, SmallestSet
<1>5. s \in SUBSET S /\ ~Good(s)
  OBVIOUS
<1>6. s # {}
  <2>1. Good({})
    BY <1>2
  <2> HIDE DEF Good
  <2> QED
    BY <1>5, <2>1
<1> DEFINE c == One(s)
<1>7. c \in s /\ g[s] = f[c] + g[s \ {c}]
  BY <1>1, <1>5, <1>6
<1> HIDE DEF c
<1>8. ASSUME NEW x \in s PROVE s \ {x} \in SUBSET S /\ Good(s \ {x})
  <2>1. Cardinality(s) \in Nat /\ Cardinality(s \ {x}) = Cardinality(s) - 1
    BY <1>3, <1>5, FS_CardinalityType, FS_RemoveElement
  <2>2. s \ {x} \notin Bad
    <3> HIDE DEF Bad
    <3> QED
      BY <1>4, <2>1
  <2> HIDE DEF Good
  <2> QED
    BY <1>5, <2>2
<1>9. f[c] \in Int /\ g[s \ {c}] \in Int
  BY <1>5, <1>7, <1>8
<1>10. ASSUME NEW x \in s PROVE g[s] = f[x] + g[s \ {x}]
  <2>1. CASE x = c
    BY <1>7, <2>1
  <2>2. CASE x # c
    <3>1. g[s \ {c}] = f[x] + g[(s \ {c}) \ {x}]
      BY <1>7, <1>8, <2>2
    <3>2. g[s \ {x}] = f[c] + g[(s \ {x}) \ {c}]
      BY <1>7, <1>8, <2>2
    <3>3. (s \ {x}) \ {c} = (s \ {c}) \ {x} /\ (s \ {c}) \ {x} \in SUBSET S
      BY <1>5
    <3>4. f[x] \in Int /\ g[s \ {x}] \in Int
      BY <1>5, <1>8
    <3> DEFINE r == g[(s \ {c}) \ {x}]
    <3>5. r \in Int
      <4>1. x \in s \ {c} /\ s \ {c} \in SUBSET S /\ Good(s \ {c})
        BY <1>7, <1>8, <2>2
      <4>2. s \ {c} # {} /\ IsFiniteSet(s \ {c})
        BY <1>3, <4>1
      <4>3. (s \ {c}) \ {x} \notin Bad
        <5>1. /\ Cardinality(s) \in Nat /\ Cardinality(s \ {c}) = Cardinality(s) - 1
              /\ Cardinality((s \ {c}) \ {x}) = Cardinality(s) - 2
          <6>1. IsFiniteSet(s) /\ Cardinality(s) \in Nat
            BY <1>3, <1>5, FS_CardinalityType
          <6>2. Cardinality(s \ {c}) = Cardinality(s) - 1
            BY <1>7, <6>1, FS_RemoveElement
          <6>3. Cardinality((s \ {c}) \ {x}) = Cardinality(s \ {c}) - 1
            BY <4>1, <4>2, FS_RemoveElement
          <6> QED
            BY <6>1, <6>2, <6>3
        <5> HIDE DEF Bad
        <5> QED
          BY <1>4, <5>1
      <4> QED
        BY <3>3, <4>3
    <3> HIDE DEF r
    <3>6. g[s \ {c}] = f[x] + r /\ g[s \ {x}] = f[c] + r
      BY <3>1, <3>2, <3>3 DEF r
    <3> QED
      BY <1>7, <1>9, <3>4, <3>5, <3>6
  <2> QED
    BY <2>1, <2>2
<1>11. g[s] \in Int
  BY <1>7, <1>9
<1> QED
  BY <1>5, <1>10, <1>11

\* The values s2 misses are zero, the others the same.
Matches(f, s, f2, s2) ==
    s2 \subseteq s /\ (\A x \in s2 : f[x] = f2[x]) /\ \A x \in s \ s2 : f[x] = 0

LEMMA SumsAgree ==
  ASSUME NEW S, IsFiniteSet(S), NEW f, Integral(f, S), NEW g, IsSum(g, f, S),
         NEW S2, IsFiniteSet(S2), NEW f2, Integral(f2, S2), NEW g2, IsSum(g2, f2, S2)
  PROVE  \A s \in SUBSET S : \A s2 \in SUBSET S2 : Matches(f, s, f2, s2) => g[s] = g2[s2]
<1>1. /\ g[{}] = 0
      /\ \A s \in SUBSET S : g[s] \in Int /\ \A x \in s : g[s] = f[x] + g[s \ {x}]
  BY SumTakesOut DEF AnyOrder
<1>2. /\ g2[{}] = 0
      /\ \A s \in SUBSET S2 : g2[s] \in Int /\ \A x \in s : g2[s] = f2[x] + g2[s \ {x}]
  BY SumTakesOut DEF AnyOrder
<1> DEFINE Good(s) == \A s2 \in SUBSET S2 : Matches(f, s, f2, s2) => g[s] = g2[s2]
           Bad == {s \in SUBSET S : ~Good(s)}
<1> SUFFICES ASSUME Bad # {} PROVE FALSE
  OBVIOUS
<1>3. PICK s \in Bad : \A t \in Bad : Cardinality(s) <= Cardinality(t)
  <2>1. \A t \in Bad : IsFiniteSet(t)
    BY FS_Subset
  <2> HIDE DEF Bad
  <2> QED
    BY <2>1, SmallestSet
<1>4. s \in SUBSET S /\ ~Good(s)
  OBVIOUS
<1>5. PICK s2 \in SUBSET S2 : Matches(f, s, f2, s2) /\ g[s] # g2[s2]
  BY <1>4
<1>6. s # {}
  BY <1>1, <1>2, <1>5 DEF Matches
<1>7. PICK x \in s : TRUE
  BY <1>6
<1>8. Good(s \ {x})
  <2>1. IsFiniteSet(s) /\ Cardinality(s) \in Nat
    BY <1>4, FS_Subset, FS_CardinalityType
  <2>2. Cardinality(s \ {x}) = Cardinality(s) - 1
    BY <2>1, FS_RemoveElement
  <2>3. s \ {x} \notin Bad
    <3> HIDE DEF Bad
    <3> QED
      BY <1>3, <2>1, <2>2
  <2> HIDE DEF Good
  <2> QED
    BY <1>4, <2>3
<1>9. g[s] = f[x] + g[s \ {x}] /\ f[x] \in Int /\ g[s \ {x}] \in Int
  <2>1. s \ {x} \in SUBSET S
    BY <1>4
  <2> QED
    BY <1>1, <1>4, <2>1 DEF Integral
<1>10. CASE x \in s2
  <2>1. Matches(f, s \ {x}, f2, s2 \ {x}) /\ s2 \ {x} \in SUBSET S2
    BY <1>5, <1>10 DEF Matches
  <2>2. g[s \ {x}] = g2[s2 \ {x}]
    BY <1>8, <2>1
  <2>3. g2[s2] = f2[x] + g2[s2 \ {x}] /\ f[x] = f2[x]
    BY <1>2, <1>5, <1>10 DEF Matches
  <2> QED
    BY <1>5, <1>9, <2>2, <2>3
<1>11. CASE x \notin s2
  <2>1. Matches(f, s \ {x}, f2, s2) /\ f[x] = 0
    BY <1>5, <1>11 DEF Matches
  <2>2. g[s \ {x}] = g2[s2]
    BY <1>5, <1>8, <2>1
  <2> QED
    BY <1>5, <1>9, <2>1, <2>2
<1> QED
  BY <1>10, <1>11

LEMMA TotalIsSum ==
  ASSUME NEW f, IsFiniteSet(DOMAIN f)
  PROVE  \E g : IsSum(g, f, DOMAIN f) /\ TotalOf(f) = g[DOMAIN f]
<1>1. TotalOf(f) = (CHOOSE g : IsSum(g, f, DOMAIN f))[DOMAIN f]
  BY DEF TotalOf, MapThenSumSet, MapThenFoldSet, IsSum
<1>2. IsSum(CHOOSE g : IsSum(g, f, DOMAIN f), f, DOMAIN f)
  BY SumExists
<1> QED
  BY <1>1, <1>2

\* Entries that are zero do not count.
LEMMA TotalRestricted ==
  ASSUME NEW K, IsFiniteSet(K), NEW K2 \in SUBSET K, NEW f \in [K -> Int], NEW f2 \in [K2 -> Int],
         Matches(f, K, f2, K2)
  PROVE  TotalOf(f) = TotalOf(f2)
<1>1. IsFiniteSet(K2) /\ DOMAIN f = K /\ DOMAIN f2 = K2
  BY FS_Subset
<1>2. PICK g : IsSum(g, f, K) /\ TotalOf(f) = g[K]
  BY <1>1, TotalIsSum
<1>3. PICK g2 : IsSum(g2, f2, K2) /\ TotalOf(f2) = g2[K2]
  BY <1>1, TotalIsSum
<1>4. Integral(f, K) /\ Integral(f2, K2)
  BY DEF Integral
<1>5. g[K] = g2[K2]
  BY <1>1, <1>2, <1>3, <1>4, SumsAgree
<1> QED
  BY <1>2, <1>3, <1>5

\* A total with a single entry.
LEMMA TotalOfOne ==
  ASSUME NEW K, IsFiniteSet(K), NEW f \in [K -> Int], NEW a \in K, \A x \in K \ {a} : f[x] = 0
  PROVE  TotalOf(f) = f[a]
<1> DEFINE f2 == [x \in {a} |-> f[a]]
<1>1. IsFiniteSet({a}) /\ f2 \in [{a} -> Int] /\ DOMAIN f2 = {a} /\ {a} \in SUBSET K
  BY FS_Subset
<1>2. Matches(f, K, f2, {a})
  BY DEF Matches
<1>3. f2[a] = f[a]
  OBVIOUS
<1> HIDE DEF f2
<1>4. TotalOf(f) = TotalOf(f2)
  BY <1>1, <1>2, TotalRestricted
<1>5. PICK g : IsSum(g, f2, {a}) /\ TotalOf(f2) = g[{a}]
  BY <1>1, TotalIsSum
<1>6. Integral(f2, {a})
  BY <1>1 DEF Integral
<1>7. g[{a}] = f2[a] + g[{a} \ {a}] /\ g[{}] = 0
  <2>1. /\ g[{}] = 0
        /\ \A s \in SUBSET {a} : g[s] \in Int /\ \A x \in s : g[s] = f2[x] + g[s \ {x}]
    BY <1>1, <1>5, <1>6, SumTakesOut DEF AnyOrder
  <2>2. {a} \in SUBSET {a} /\ a \in {a}
    OBVIOUS
  <2> QED
    BY <2>1, <2>2
<1>8. {a} \ {a} = {}
  OBVIOUS
<1> QED
  BY <1>3, <1>4, <1>5, <1>7, <1>8

\* A move between two entries keeps the total.
LEMMA TotalMoved ==
  ASSUME NEW K, IsFiniteSet(K), NEW f \in [K -> Int], NEW f2 \in [K -> Int],
         NEW a \in K, NEW b \in K, a # b, f[a] + f[b] = f2[a] + f2[b],
         \A x \in K \ {a, b} : f[x] = f2[x]
  PROVE  TotalOf(f) = TotalOf(f2)
<1>1. PICK g : IsSum(g, f, K) /\ TotalOf(f) = g[K]
  BY TotalIsSum
<1>2. PICK g2 : IsSum(g2, f2, K) /\ TotalOf(f2) = g2[K]
  BY TotalIsSum
<1> DEFINE rest == (K \ {a}) \ {b}
<1>3. Integral(f, K) /\ Integral(f2, K)
  BY DEF Integral
<1>4. /\ K \in SUBSET K /\ K \ {a} \in SUBSET K /\ b \in K \ {a} /\ rest \in SUBSET K
      /\ rest = K \ {a, b}
  OBVIOUS
<1>5. /\ g[K] = f[a] + g[K \ {a}] /\ g[K \ {a}] = f[b] + g[rest] /\ g[rest] \in Int
      /\ g2[K] = f2[a] + g2[K \ {a}] /\ g2[K \ {a}] = f2[b] + g2[rest] /\ g2[rest] \in Int
  <2> HIDE DEF rest
  <2>1. /\ \A s \in SUBSET K : g[s] \in Int /\ \A x \in s : g[s] = f[x] + g[s \ {x}]
        /\ \A s \in SUBSET K : g2[s] \in Int /\ \A x \in s : g2[s] = f2[x] + g2[s \ {x}]
    <3>1. AnyOrder(g, f, K) /\ AnyOrder(g2, f2, K)
      BY <1>1, <1>2, <1>3, SumTakesOut
    <3> QED
      BY <3>1 DEF AnyOrder
  <2> QED
    BY <1>4, <2>1 DEF rest
<1>6. Matches(f, rest, f2, rest)
  BY <1>4 DEF Matches
<1> HIDE DEF rest
<1>7. g[rest] = g2[rest]
  BY <1>1, <1>2, <1>3, <1>4, <1>6, SumsAgree
<1> QED
  BY <1>1, <1>2, <1>5, <1>7

LEMMA KeysAreFinite == IsFiniteSet(Keys)
<1>1. IsFiniteSet(Keys \cup Programs)
  <2>1. KeyOrder \in Seq(Keys \cup Programs) /\ DOMAIN KeyOrder = 1..Len(KeyOrder)
    BY CallsAreTyped
  <2>2. \A k \in Keys \cup Programs : \E n \in 1..Len(KeyOrder) : KeyOrder[n] = k
    BY <2>1, CallsAreTyped
  <2> QED
    BY <2>1, <2>2 DEF IsFiniteSet
<1> QED
  BY <1>1, FS_Subset

\* What every account gained or lost so far.
Changes == [k \in Keys |-> lamports[k] - BeforeFee[k]]

\* As long as the simulation has not been rolled back, the fee is all that left the
\* accounts.
Conserved ==
    /\ lamports \in [Keys -> Int]
    /\ sim # "failed" => TotalOf(Changes) = -Fee

LEMMA BeforeFeeTyped == BeforeFee \in [Keys -> Int]
BY CallsAreTyped DEF BeforeFee

LEMMA ConservedInit == Init => Conserved
<1> SUFFICES ASSUME Init PROVE Conserved
  OBVIOUS
<1>1. FeePayer \in Keys /\ Fee \in Int
  BY CallsAreTyped
<1>2. lamports = [BeforeFee EXCEPT ![FeePayer] = BeforeFee[FeePayer] - Fee]
  BY DEF Init
<1>3. lamports \in [Keys -> Int]
  BY <1>1, <1>2, BeforeFeeTyped
<1>4. /\ Changes \in [Keys -> Int] /\ Changes[FeePayer] = -Fee
      /\ \A k \in Keys \ {FeePayer} : Changes[k] = 0
  BY <1>1, <1>2, <1>3, BeforeFeeTyped DEF Changes
<1>5. TotalOf(Changes) = -Fee
  BY <1>1, <1>4, KeysAreFinite, TotalOfOne
<1> QED
  BY <1>3, <1>5 DEF Conserved

\* A call that the runtime executes moves lamports and makes none.
LEMMA MovedConserves ==
  ASSUME NEW call \in Instructions, Executable(call), lamports \in [Keys -> Int],
         lamports' = Moved(call)
  PROVE  lamports' \in [Keys -> Int] /\ TotalOf(Changes') = TotalOf(Changes)
<1>1. CASE ~IsTransfer(call)
  <2>1. lamports' = lamports
    BY <1>1 DEF Moved
  <2>2. Changes' = Changes
    BY <2>1 DEF Changes
  <2> QED
    BY <2>1, <2>2
<1>2. CASE IsTransfer(call)
  <2> DEFINE a == call.accounts[1]
             b == call.accounts[2]
  <2>1. a \in Keys /\ b \in Keys
    <3>1. call.accounts \in Seq(Keys)
      BY CallsAreTyped DEF CpiCall
    <3>2. Len(call.accounts) >= 2
      <4>1. Operands(call) = 2
        BY <1>2 DEF Operands, IsTransfer, TokenPrograms
      <4> QED
        BY <4>1 DEF Executable
    <3> QED
      BY <3>1, <3>2
  <2>2. TransferAmount \in Int
    BY CallsAreTyped
  <2>3. lamports' = [[lamports EXCEPT ![a] = @ - TransferAmount] EXCEPT ![b] = @ + TransferAmount]
    BY <1>2 DEF Moved
  <2> HIDE DEF a, b
  <2>4. lamports' \in [Keys -> Int]
    BY <2>1, <2>2, <2>3
  <2>5. Changes \in [Keys -> Int] /\ Changes' \in [Keys -> Int]
    BY <2>4, BeforeFeeTyped DEF Changes
  <2>6. CASE a = b
    <3>1. lamports' = lamports
      BY <2>1, <2>2, <2>3, <2>6
    <3> QED
      BY <2>4, <3>1 DEF Changes
  <2>7. CASE a # b
    <3>1. /\ Changes[a] + Changes[b] = Changes'[a] + Changes'[b]
          /\ \A k \in Keys \ {a, b} : Changes[k] = Changes'[k]
      <4>1. /\ lamports'[a] = lamports[a] - TransferAmount
            /\ lamports'[b] = lamports[b] + TransferAmount
            /\ \A k \in Keys \ {a, b} : lamports'[k] = lamports[k]
        BY <2>1, <2>2, <2>3, <2>7
      <4>2. \A k \in Keys : /\ lamports[k] \in Int /\ BeforeFee[k] \in Int
                             /\ Changes[k] = lamports[k] - BeforeFee[k]
                             /\ Changes'[k] = lamports'[k] - BeforeFee[k]
        BY BeforeFeeTyped DEF Changes
      <4> QED
        BY <2>1, <2>2, <4>1, <4>2
    <3>2. TotalOf(Changes) = TotalOf(Changes')
      BY <2>1, <2>5, <2>7, <3>1, KeysAreFinite, TotalMoved
    <3> QED
      BY <2>4, <3>2
  <2> QED
    BY <2>6, <2>7
<1> QED
  BY <1>1, <1>2

LEMMA ConservedStep == SimTypes /\ Conserved /\ [Next]_vars => Conserved'
<1> SUFFICES ASSUME SimTypes, Conserved, [Next]_vars PROVE Conserved'
  OBVIOUS
<1> USE DEF Conserved
<1>1. ASSUME NEW call \in Instructions, Executable(call), lamports' = Moved(call), sim = "running"
      PROVE  Conserved'
  <2>1. lamports' \in [Keys -> Int] /\ TotalOf(Changes') = TotalOf(Changes)
    BY <1>1, MovedConserves
  <2> QED
    BY <1>1, <2>1
<1>2. CASE Invoke
  <2>1. tx[at + 1] \in Instructions
    BY <1>2 DEF Invoke, SimTypes
  <2> QED
    BY <1>1, <1>2, <2>1 DEF Invoke
<1>3. ASSUME NEW call \in Instructions, Cpi(call) PROVE Conserved'
  BY <1>1, <1>3 DEF Cpi
<1>4. CASE Fails
  BY <1>4, BeforeFeeTyped DEF Fails
<1>5. CASE Succeeds \/ UNCHANGED vars
  <2>1. lamports' = lamports /\ (sim' # "failed" => sim # "failed")
    BY <1>5 DEF Succeeds, vars
  <2>2. Changes' = Changes
    BY <2>1 DEF Changes
  <2> QED
    BY <2>1, <2>2
<1> QED
  BY <1>2, <1>3, <1>4, <1>5 DEF Next

\* executor.rs lists the accounts whose lamports differ from the pre-state, the new ones
\* included: after a successful simulation of any transaction, whatever its programs
\* call, the listed deltas add up to the fee.  The accounts it leaves out changed by 0.
THEOREM DeltasAddUpToTheFee == Spec => []DeltasConserveLamports
<1>1. SimTypes /\ Conserved => DeltasConserveLamports
  <2> SUFFICES ASSUME Conserved, sim = "ok" PROVE TotalOf(compute_balance_deltas) = -Fee
    BY DEF DeltasConserveLamports, SimulationTrace
  <2> DEFINE Changed == {k \in Keys : lamports[k] # BeforeFee[k]}
             listed  == [k \in Changed |-> lamports[k] - BeforeFee[k]]
  <2>1. compute_balance_deltas = listed
    BY DEF compute_balance_deltas
  <2>2. /\ Changes \in [Keys -> Int] /\ listed \in [Changed -> Int]
        /\ Changed \in SUBSET Keys
    BY BeforeFeeTyped DEF Conserved, Changes
  <2>3. Matches(Changes, Keys, listed, Changed)
    BY BeforeFeeTyped DEF Conserved, Changes, Matches
  <2> HIDE DEF Changed, listed
  <2>4. TotalOf(Changes) = TotalOf(listed)
    BY <2>2, <2>3, KeysAreFinite, TotalRestricted
  <2> QED
    BY <2>1, <2>4 DEF Conserved
<1>2. Init => SimTypes /\ Conserved
  BY SimTypesInit, ConservedInit
<1>3. SimTypes /\ Conserved /\ [Next]_vars => SimTypes' /\ Conserved'
  BY SimTypesStep, ConservedStep
<1> QED
  BY <1>1, <1>2, <1>3, PTL DEF Spec
----------------------------------------------------------------------------
(* Folds over sequences.  FoldLeft takes the last position of a set of     *)
(* positions first, so its value at 1..i is that of the first i elements.  *)

\* Induction up to n, on a set.
LEMMA UpToN ==
  ASSUME NEW n \in Nat, NEW S, 0 \in S, \A i \in 1..n : i - 1 \in S => i \in S
  PROVE  \A i \in 0..n : i \in S
<1> DEFINE Bad == {i \in 0..n : i \notin S}
<1> SUFFICES ASSUME Bad # {} PROVE FALSE
  OBVIOUS
<1>1. PICK i \in Bad : \A k \in Bad : i <= k
  <2>1. Bad \in SUBSET Nat
    OBVIOUS
  <2> HIDE DEF Bad
  <2> QED
    BY <2>1, LeastNat
<1>2. i \in 1..n /\ i - 1 \in 0..n /\ i - 1 \notin Bad
  BY <1>1
<1> QED
  BY <1>2

LEMMA LastOfSome ==
  ASSUME NEW m \in Nat, NEW s \in SUBSET (1..m), s # {}
  PROVE  Max(s) \in s /\ s \ {Max(s)} \in SUBSET (1..(m - 1))
<1> DEFINE Above == {k \in Nat : \A x \in s : x <= k}
<1>1. Above \in SUBSET Nat /\ m \in Above
  OBVIOUS
<1>2. PICK k \in Above : \A j \in Above : k <= j
  <2> HIDE DEF Above
  <2> QED
    BY <1>1, LeastNat
<1>3. k \in s
  <2> SUFFICES ASSUME k \notin s PROVE FALSE
    OBVIOUS
  <2>1. k # 0
    <3>1. PICK x \in s : TRUE
      OBVIOUS
    <3>2. x >= 1 /\ x <= k
      BY <3>1
    <3> QED
      BY <3>2
  <2>2. k - 1 \in Above
    BY <2>1
  <2> QED
    BY <1>2, <2>1, <2>2
<1>4. \E x \in s : \A y \in s : x >= y
  BY <1>3
<1>5. Max(s) \in s /\ \A y \in s : Max(s) >= y
  BY <1>4 DEF Max
<1> DEFINE last == Max(s)
<1> HIDE DEF last
<1>6. last \in s /\ \A y \in s : last >= y
  BY <1>5 DEF last
<1>7. ASSUME NEW y \in s \ {last} PROVE y \in 1..(m - 1)
  <2>1. y \in 1..m /\ last \in 1..m /\ last >= y /\ y # last
    BY <1>6
  <2> QED
    BY <2>1
<1> QED
  BY <1>6, <1>7 DEF last

LEMMA LastOfPrefix ==
  ASSUME NEW i \in Nat, i > 0
  PROVE  Max(1..i) = i /\ 1..i # {} /\ (1..i) \ {i} = 1..(i - 1)
<1>1. i \in 1..i /\ \A y \in 1..i : i >= y
  OBVIOUS
<1>2. ASSUME NEW x \in 1..i, \A y \in 1..i : x >= y PROVE x = i
  BY <1>1, <1>2
<1> QED
  BY <1>1, <1>2 DEF Max

\* g is the fold of step over the sets of positions of seq.
IsFold(g, step, base, seq) ==
    \A s \in SUBSET DOMAIN seq :
        g[s] = IF s = {} THEN base ELSE step[<<g[s \ {Max(s)}], seq[Max(s)]>>]

\* So is h, as far as its values are in Acc.
FoldsIn(h, Acc, step, base, seq) ==
    /\ h[{}] = base
    /\ \A s \in SUBSET DOMAIN seq : s # {} /\ h[s \ {Max(s)}] \in Acc
          => h[s] = step[<<h[s \ {Max(s)}], seq[Max(s)]>>]

\* The loop from base through the elements of seq ends at result.
Loops(r, step, base, seq, result) ==
    /\ r[0] = base /\ r[Len(seq)] = result
    /\ \A i \in 1..Len(seq) : r[i] = step[<<r[i - 1], seq[i]>>]

\* A fold with a step that keeps to Acc has a value, in Acc, for every set of positions.
LEMMA FoldExists ==
  ASSUME NEW Acc, NEW K, NEW step \in [Acc \X K -> Acc], NEW base \in Acc, NEW seq \in Seq(K)
  PROVE  \E g \in [SUBSET DOMAIN seq -> Acc] : IsFold(g, step, base, seq)
<1> DEFINE D == 1..Len(seq)
           Value(g, s) == IF s = {} THEN base ELSE step[<<g[s \ {Max(s)}], seq[Max(s)]>>]
           Runs(g, m) == \A s \in SUBSET (1..m) : g[s] = Value(g, s)
           Reached == {m \in 0..Len(seq) : \E g \in [SUBSET D -> Acc] : Runs(g, m)}
<1>1. Len(seq) \in Nat /\ DOMAIN seq = D
  OBVIOUS
<1>2. ASSUME NEW m \in 0..Len(seq), NEW s \in SUBSET (1..m), s # {}
      PROVE  /\ s \in SUBSET D /\ Max(s) \in D
             /\ s \ {Max(s)} \in SUBSET (1..(m - 1)) /\ s \ {Max(s)} \in SUBSET D
  <2>1. m \in Nat /\ 1..m \subseteq D /\ 1..(m - 1) \subseteq D
    BY <1>1
  <2>2. Max(s) \in s /\ s \ {Max(s)} \in SUBSET (1..(m - 1))
    BY <1>2, <2>1, LastOfSome
  <2> QED
    BY <2>1, <2>2
<1>3. 0 \in Reached
  <2> DEFINE g == [s \in SUBSET D |-> base]
  <2>1. g \in [SUBSET D -> Acc]
    OBVIOUS
  <2>2. Runs(g, 0)
    OBVIOUS
  <2> HIDE DEF g, Runs
  <2> QED
    BY <1>1, <2>1, <2>2
<1>4. ASSUME NEW m \in 1..Len(seq), m - 1 \in Reached PROVE m \in Reached
  <2>1. PICK g \in [SUBSET D -> Acc] : Runs(g, m - 1)
    BY <1>4
  <2> DEFINE h == [s \in SUBSET D |-> IF s \in SUBSET (1..m) THEN Value(g, s) ELSE base]
  <2>2. ASSUME NEW s \in SUBSET D PROVE h[s] \in Acc
    <3>1. CASE s = {} \/ s \notin SUBSET (1..m)
      BY <3>1
    <3>2. CASE s # {} /\ s \in SUBSET (1..m)
      <4>1. Max(s) \in D /\ s \ {Max(s)} \in SUBSET D
        BY <1>1, <1>2, <3>2
      <4>2. g[s \ {Max(s)}] \in Acc /\ seq[Max(s)] \in K
        BY <1>1, <4>1
      <4>3. step[<<g[s \ {Max(s)}], seq[Max(s)]>>] \in Acc
        BY <4>2
      <4> QED
        BY <3>2, <4>3
    <3> QED
      BY <3>1, <3>2
  <2>3. ASSUME NEW s \in SUBSET (1..m) PROVE h[s] = Value(h, s)
    <3>1. s \in SUBSET D
      BY <1>1
    <3>2. h[s] = Value(g, s)
      BY <3>1
    <3>3. CASE s = {}
      BY <3>2, <3>3
    <3>4. CASE s # {}
      <4> DEFINE t == s \ {Max(s)}
      <4>1. t \in SUBSET (1..(m - 1)) /\ t \in SUBSET D
        BY <1>1, <1>2, <3>4
      <4> HIDE DEF t
      <4>2. t \in SUBSET (1..m)
        BY <1>1, <4>1
      <4>3. h[t] = Value(g, t)
        BY <4>1, <4>2
      <4>4. g[t] = Value(g, t)
        BY <2>1, <4>1
      <4>5. h[t] = g[t]
        BY <4>3, <4>4
      <4> HIDE DEF h
      <4> QED
        BY <3>2, <3>4, <4>5 DEF t
    <3> QED
      BY <3>3, <3>4
  <2>4. h \in [SUBSET D -> Acc]
    BY <2>2
  <2> HIDE DEF h, Value
  <2>5. Runs(h, m)
    BY <2>3
  <2> HIDE DEF Runs
  <2> QED
    BY <1>1, <2>4, <2>5
<1> HIDE DEF Reached
<1>5. Len(seq) \in Reached
  <2>1. \A m \in 1..Len(seq) : m - 1 \in Reached => m \in Reached
    BY <1>4
  <2>2. \A m \in 0..Len(seq) : m \in Reached
    BY <1>1, <1>3, <2>1, UpToN, Zenon
  <2> QED
    BY <1>1, <2>2
<1> QED
  BY <1>1, <1>5 DEF Reached, IsFold

\* Along the prefixes of the sequence the fold is a loop.
LEMMA FoldRuns ==
  ASSUME NEW Acc, NEW K, NEW step \in [Acc \X K -> Acc], NEW base \in Acc, NEW seq \in Seq(K),
         NEW h, FoldsIn(h, Acc, step, base, seq)
  PROVE  \E r \in [0..Len(seq) -> Acc] : Loops(r, step, base, seq, h[DOMAIN seq])
<1> DEFINE n == Len(seq)
           r == [i \in 0..n |-> h[1..i]]
           Typed == {i \in 0..n : r[i] \in Acc}
<1>1. n \in Nat /\ DOMAIN seq = 1..n
  OBVIOUS
<1>2. r[0] = base
  <2>1. 1..0 = {} /\ 0 \in 0..n
    BY <1>1
  <2> QED
    BY <2>1 DEF FoldsIn
<1>3. ASSUME NEW i \in 1..n, r[i - 1] \in Acc
      PROVE  r[i] = step[<<r[i - 1], seq[i]>>] /\ r[i] \in Acc
  <2>1. /\ i - 1 \in 0..n /\ i \in 0..n /\ i \in Nat /\ i > 0
        /\ 1..i \in SUBSET DOMAIN seq
    BY <1>1
  <2>2. Max(1..i) = i /\ 1..i # {} /\ (1..i) \ {i} = 1..(i - 1)
    BY <2>1, LastOfPrefix
  <2>3. r[i] = h[1..i] /\ r[i - 1] = h[1..(i - 1)]
    BY <2>1
  <2> HIDE DEF r
  <2>4. r[i] = step[<<r[i - 1], seq[i]>>]
    BY <1>3, <2>1, <2>2, <2>3 DEF FoldsIn
  <2>5. seq[i] \in K
    BY <1>1
  <2> QED
    BY <1>3, <2>4, <2>5
<1>4. \A i \in 0..n : i \in Typed
  <2>1. 0 \in Typed
    BY <1>1, <1>2
  <2>2. \A i \in 1..n : i - 1 \in Typed => i \in Typed
    <3> SUFFICES ASSUME NEW i \in 1..n, i - 1 \in Typed PROVE i \in Typed
      OBVIOUS
    <3>1. r[i - 1] \in Acc /\ i \in 0..n
      BY <1>1
    <3> HIDE DEF r
    <3> QED
      BY <1>3, <3>1
  <2> HIDE DEF Typed
  <2> QED
    BY <1>1, <2>1, <2>2, UpToN, Zenon
<1>5. r \in [0..n -> Acc]
  BY <1>4
<1>6. \A i \in 1..n : r[i] = step[<<r[i - 1], seq[i]>>]
  <2> SUFFICES ASSUME NEW i \in 1..n PROVE r[i] = step[<<r[i - 1], seq[i]>>]
    OBVIOUS
  <2>1. i - 1 \in 0..n
    BY <1>1
  <2> QED
    BY <1>3, <1>4, <2>1
<1>7. h[DOMAIN seq] = r[n]
  BY <1>1
<1> HIDE DEF r
<1> QED
  BY <1>2, <1>5, <1>6, <1>7 DEF Loops
----------------------------------------------------------------------------
(* The oracle reads of a trace.                                            *)

KeySpace == Keys \cup Programs

OracleRead == [oracle_pubkey : KeySpace, oracle_type : OraclePrograms]

KeysOf(reads) == {reads[i].oracle_pubkey : i \in DOMAIN reads}

TypesOf(reads) == {reads[i].oracle_type : i \in DOMAIN reads}

\* No key is read twice.
EachOnce(reads) ==
    \A i, j \in DOMAIN reads : reads[i].oracle_pubkey = reads[j].oracle_pubkey => i = j

\* longer is reads with some keys added as reads of an oracle, each once.
Adds(longer, reads, keys, oracle) ==
    /\ longer \in Seq(OracleRead)
    /\ EachOnce(reads) => EachOnce(longer)
    /\ KeysOf(longer) = KeysOf(reads) \cup (keys \ OraclePrograms)
    /\ TypesOf(longer) \subseteq TypesOf(reads) \cup {oracle}

LEMMA WithReadFacts ==
  ASSUME NEW reads \in Seq(OracleRead), NEW oracle \in OraclePrograms, NEW k \in KeySpace
  PROVE  Adds(WithRead(reads, oracle, k), reads, {k}, oracle)
<1> USE DEF Adds
<1> DEFINE new == [oracle_pubkey |-> k, oracle_type |-> oracle]
<1>1. CASE k \in OraclePrograms \/ \E i \in DOMAIN reads : reads[i].oracle_pubkey = k
  <2>1. WithRead(reads, oracle, k) = reads
    BY <1>1 DEF WithRead
  <2> QED
    BY <1>1, <2>1 DEF KeysOf
<1>2. CASE ~(k \in OraclePrograms \/ \E i \in DOMAIN reads : reads[i].oracle_pubkey = k)
  <2> DEFINE longer == Append(reads, new)
  <2>1. WithRead(reads, oracle, k) = longer
    BY <1>2 DEF WithRead
  <2>2. new \in OracleRead /\ new.oracle_pubkey = k /\ new.oracle_type = oracle
    BY DEF OracleRead
  <2> HIDE DEF new
  <2>3. /\ longer \in Seq(OracleRead) /\ DOMAIN longer = DOMAIN reads \cup {Len(reads) + 1}
        /\ longer[Len(reads) + 1] = new /\ \A i \in DOMAIN reads : longer[i] = reads[i]
        /\ Len(reads) + 1 \notin DOMAIN reads
    BY <2>2
  <2> HIDE DEF longer
  <2>4. EachOnce(reads) => EachOnce(longer)
    BY <1>2, <2>2, <2>3 DEF EachOnce
  <2>5. KeysOf(longer) = KeysOf(reads) \cup {k}
    BY <2>2, <2>3 DEF KeysOf
  <2>6. TypesOf(longer) = TypesOf(reads) \cup {oracle}
    BY <2>2, <2>3 DEF TypesOf
  <2> QED
    BY <1>2, <2>1, <2>3, <2>4, <2>5, <2>6
<1> QED
  BY <1>1, <1>2

LEMMA WithReadsRuns ==
  ASSUME NEW reads \in Seq(OracleRead), NEW oracle \in OraclePrograms, NEW keys \in Seq(KeySpace)
  PROVE  \E r \in [0..Len(keys) -> Seq(OracleRead)] :
            /\ r[0] = reads /\ WithReads(reads, oracle, keys) = r[Len(keys)]
            /\ \A i \in 1..Len(keys) : r[i] = WithRead(r[i - 1], oracle, keys[i])
<1> DEFINE Acc == Seq(OracleRead)
           step == [x \in Acc \X KeySpace |-> WithRead(x[1], oracle, x[2])]
           Eq(h) == h = [s \in SUBSET DOMAIN keys |->
                           IF s = {} THEN reads
                           ELSE WithRead(h[s \ {Max(s)}], oracle, keys[Max(s)])]
           h == CHOOSE g : Eq(g)
<1>1. \A acc \in Acc, k \in KeySpace : WithRead(acc, oracle, k) \in Acc
  BY WithReadFacts DEF Adds
<1>2. /\ step \in [Acc \X KeySpace -> Acc]
      /\ \A acc \in Acc, k \in KeySpace : step[<<acc, k>>] = WithRead(acc, oracle, k)
  BY <1>1
<1>3. ASSUME NEW s \in SUBSET DOMAIN keys, s # {}
      PROVE  keys[Max(s)] \in KeySpace /\ s \ {Max(s)} \in SUBSET DOMAIN keys
  <2>1. Len(keys) \in Nat /\ DOMAIN keys = 1..Len(keys)
    OBVIOUS
  <2>2. Max(s) \in s
    BY <1>3, <2>1, LastOfSome
  <2> QED
    BY <2>2
<1> HIDE DEF step
<1>4. PICK g \in [SUBSET DOMAIN keys -> Acc] : IsFold(g, step, reads, keys)
  BY <1>2, FoldExists
<1>5. \A s \in SUBSET DOMAIN keys :
         g[s] = IF s = {} THEN reads ELSE WithRead(g[s \ {Max(s)}], oracle, keys[Max(s)])
  BY <1>2, <1>3, <1>4 DEF IsFold
<1>6. Eq(g)
  BY <1>5
<1>7. Eq(h)
  BY <1>6
<1>8. WithReads(reads, oracle, keys) = h[DOMAIN keys]
  BY DEF WithReads, FoldLeft, MapThenFoldSet
<1> HIDE DEF h
<1>9. FoldsIn(h, Acc, step, reads, keys)
  BY <1>2, <1>3, <1>7 DEF FoldsIn
<1> HIDE DEF Eq
<1>10. PICK r \in [0..Len(keys) -> Acc] : Loops(r, step, reads, keys, h[DOMAIN keys])
  BY <1>2, <1>9, FoldRuns
<1>11. ASSUME NEW i \in 1..Len(keys) PROVE r[i] = WithRead(r[i - 1], oracle, keys[i])
  <2>1. r[i - 1] \in Acc /\ keys[i] \in KeySpace
    OBVIOUS
  <2> QED
    BY <1>2, <1>10, <2>1 DEF Loops
<1> QED
  BY <1>8, <1>10, <1>11 DEF Loops

\* What the first elements of a sequence hold.
FirstOf(seq, i) == {seq[j] : j \in 1..i}

LEMMA FirstOfFacts ==
  ASSUME NEW seq
  PROVE  /\ FirstOf(seq, 0) = {}
         /\ \A i \in Nat : i > 0 => FirstOf(seq, i) = FirstOf(seq, i - 1) \cup {seq[i]}
<1>1. 1..0 = {}
  OBVIOUS
<1>2. ASSUME NEW i \in Nat, i > 0 PROVE FirstOf(seq, i) = FirstOf(seq, i - 1) \cup {seq[i]}
  <2>1. 1..i = (1..(i - 1)) \cup {i}
    BY <1>2
  <2> QED
    BY <2>1 DEF FirstOf
<1> QED
  BY <1>1, <1>2 DEF FirstOf

\* What a call or the list of the transaction's accounts adds: its keys, each once.
LEMMA WithReadsFacts ==
  ASSUME NEW reads \in Seq(OracleRead), NEW oracle \in OraclePrograms, NEW keys \in Seq(KeySpace)
  PROVE  Adds(WithReads(reads, oracle, keys), reads, ToSet(keys), oracle)
<1> DEFINE n == Len(keys)
<1>1. PICK r \in [0..n -> Seq(OracleRead)] :
         /\ r[0] = reads /\ WithReads(reads, oracle, keys) = r[n]
         /\ \A i \in 1..n : r[i] = WithRead(r[i - 1], oracle, keys[i])
  BY WithReadsRuns
<1> DEFINE Done == {i \in 0..n : Adds(r[i], reads, FirstOf(keys, i), oracle)}
<1>2. n \in Nat /\ DOMAIN keys = 1..n
  OBVIOUS
<1>3. 0 \in Done
  BY <1>1, <1>2, FirstOfFacts DEF Adds
<1>4. \A i \in 1..n : i - 1 \in Done => i \in Done
  <2> SUFFICES ASSUME NEW i \in 1..n, i - 1 \in Done PROVE i \in Done
    OBVIOUS
  <2>1. /\ r[i - 1] \in Seq(OracleRead) /\ keys[i] \in KeySpace
        /\ r[i] = WithRead(r[i - 1], oracle, keys[i])
    BY <1>1, <1>2
  <2>2. FirstOf(keys, i) = FirstOf(keys, i - 1) \cup {keys[i]} /\ i \in 0..n
    BY <1>2, FirstOfFacts
  <2>3. Adds(r[i - 1], reads, FirstOf(keys, i - 1), oracle)
    OBVIOUS
  <2>4. Adds(r[i], r[i - 1], {keys[i]}, oracle)
    BY <2>1, WithReadFacts
  <2>5. Adds(r[i], reads, FirstOf(keys, i), oracle)
    BY <2>2, <2>3, <2>4 DEF Adds
  <2> QED
    BY <2>2, <2>5
<1>5. n \in Done
  <2> HIDE DEF Done
  <2>1. \A i \in 0..n : i \in Done
    BY <1>2, <1>3, <1>4, UpToN, Zenon
  <2> QED
    BY <1>2, <2>1
<1>6. FirstOf(keys, n) = ToSet(keys)
  BY <1>2 DEF ToSet, FirstOf
<1> QED
  BY <1>1, <1>5, <1>6

\* The list of the transaction's accounts is complete.
LEMMA AccountKeysFacts == account_keys \in Seq(KeySpace) /\ ToSet(account_keys) = KeySpace \cap Named
<1> DEFINE Acc == Seq(KeySpace)
           named == Named
           Add(acc, k) == IF k \in named THEN Append(acc, k) ELSE acc
           step == [x \in Acc \X KeySpace |-> Add(x[1], x[2])]
           n == Len(KeyOrder)
           Eq(h) == h = [s \in SUBSET DOMAIN KeyOrder |->
                           IF s = {} THEN <<>> ELSE Add(h[s \ {Max(s)}], KeyOrder[Max(s)])]
           h == CHOOSE g : Eq(g)
<1>1. /\ KeyOrder \in Seq(KeySpace) /\ n \in Nat /\ DOMAIN KeyOrder = 1..n
      /\ KeySpace = {KeyOrder[i] : i \in 1..n} /\ \A i \in 1..n : KeyOrder[i] \in KeySpace
  BY CallsAreTyped DEF KeySpace
<1>2. account_keys = h[DOMAIN KeyOrder]
  BY DEF account_keys, FoldLeft, MapThenFoldSet
<1> HIDE DEF named
<1>3. ASSUME NEW acc \in Acc, NEW k \in KeySpace
      PROVE  Add(acc, k) \in Acc /\ ToSet(Add(acc, k)) = ToSet(acc) \cup ({k} \cap named)
  <2>1. CASE k \in named
    <3>1. /\ Append(acc, k) \in Acc /\ DOMAIN Append(acc, k) = DOMAIN acc \cup {Len(acc) + 1}
          /\ Append(acc, k)[Len(acc) + 1] = k
          /\ \A i \in DOMAIN acc : Append(acc, k)[i] = acc[i]
      OBVIOUS
    <3> QED
      BY <2>1, <3>1 DEF ToSet
  <2> QED
    BY <2>1
<1>4. /\ step \in [Acc \X KeySpace -> Acc]
      /\ \A acc \in Acc, k \in KeySpace : step[<<acc, k>>] = Add(acc, k)
  BY <1>3
<1>5. ASSUME NEW s \in SUBSET DOMAIN KeyOrder, s # {}
      PROVE  KeyOrder[Max(s)] \in KeySpace /\ s \ {Max(s)} \in SUBSET DOMAIN KeyOrder
  BY <1>1, <1>5, LastOfSome
<1> HIDE DEF step, Add, n
<1>6. <<>> \in Acc
  OBVIOUS
<1> HIDE DEF Acc
<1>7. PICK g \in [SUBSET DOMAIN KeyOrder -> Acc] : IsFold(g, step, <<>>, KeyOrder)
  BY <1>1, <1>4, <1>6, FoldExists
<1>8. \A s \in SUBSET DOMAIN KeyOrder :
         g[s] = IF s = {} THEN <<>> ELSE Add(g[s \ {Max(s)}], KeyOrder[Max(s)])
  BY <1>4, <1>5, <1>7 DEF IsFold
<1>9. Eq(h)
  <2>1. Eq(g)
    BY <1>8
  <2> QED
    BY <2>1
<1> HIDE DEF h
<1>10. FoldsIn(h, Acc, step, <<>>, KeyOrder)
  BY <1>4, <1>5, <1>9 DEF FoldsIn
<1> HIDE DEF Eq
<1>11. PICK r \in [0..n -> Acc] : Loops(r, step, <<>>, KeyOrder, h[DOMAIN KeyOrder])
  BY <1>1, <1>4, <1>6, <1>10, FoldRuns DEF n
<1> DEFINE Done == {i \in 0..n : ToSet(r[i]) = FirstOf(KeyOrder, i) \cap named}
<1>12. 0 \in Done
  <2>1. ToSet(<<>>) = {}
    BY DEF ToSet
  <2> QED
    BY <1>1, <1>11, <2>1, FirstOfFacts DEF Loops
<1>13. \A i \in 1..n : i - 1 \in Done => i \in Done
  <2> SUFFICES ASSUME NEW i \in 1..n, i - 1 \in Done PROVE i \in Done
    OBVIOUS
  <2>1. r[i - 1] \in Acc /\ r[i] = step[<<r[i - 1], KeyOrder[i]>>]
    BY <1>1, <1>11 DEF Loops, n
  <2>2. FirstOf(KeyOrder, i) = FirstOf(KeyOrder, i - 1) \cup {KeyOrder[i]} /\ i \in 0..n
    <3> HIDE DEF Done
    <3>1. n \in Nat
      BY <1>1
    <3>2. i \in Nat /\ i > 0 /\ i \in 0..n
      BY <3>1
    <3> QED
      BY <3>2, FirstOfFacts
  <2>3. ToSet(r[i - 1]) = FirstOf(KeyOrder, i - 1) \cap named
    OBVIOUS
  <2>4. ToSet(r[i]) = ToSet(r[i - 1]) \cup ({KeyOrder[i]} \cap named)
    <3>1. KeyOrder[i] \in KeySpace
      BY <1>1
    <3>2. r[i] = Add(r[i - 1], KeyOrder[i])
      BY <1>4, <2>1, <3>1
    <3> QED
      BY <1>3, <2>1, <3>1, <3>2
  <2>5. ToSet(r[i]) = FirstOf(KeyOrder, i) \cap named
    BY <2>2, <2>3, <2>4
  <2> QED
    BY <2>2, <2>5
<1> HIDE DEF Done
<1>14. n \in Done
  <2>1. \A i \in 0..n : i \in Done
    BY <1>1, <1>12, <1>13, UpToN, Zenon
  <2> QED
    BY <1>1, <2>1
<1>15. account_keys = r[n] /\ r[n] \in Acc
  BY <1>1, <1>2, <1>11 DEF Loops, n
<1> QED
  BY <1>1, <1>14, <1>15 DEF Done, Acc, named, FirstOf

\* What the reads hold once the first i signed instructions were looked at.
ReadUpTo(reads, i) ==
    /\ reads \in Seq(OracleRead) /\ EachOnce(reads)
    /\ \A j \in 1..i : tx[j].program \in OraclePrograms
          => ToSet(tx[j].accounts) \ OraclePrograms \subseteq KeysOf(reads)
    /\ TypesOf(reads) \subseteq {tx[j].program : j \in 1..i}

\* One signed instruction.
InputRead(acc, call) ==
    IF call.program \in OraclePrograms
    THEN WithReads(acc, call.program, call.accounts) ELSE acc

LEMMA InputReadFacts ==
  ASSUME NEW acc \in Seq(OracleRead), NEW call \in Instructions
  PROVE  /\ InputRead(acc, call) \in Seq(OracleRead)
         /\ EachOnce(acc) => EachOnce(InputRead(acc, call))
         /\ KeysOf(acc) \subseteq KeysOf(InputRead(acc, call))
         /\ call.program \in OraclePrograms
               => ToSet(call.accounts) \ OraclePrograms \subseteq KeysOf(InputRead(acc, call))
         /\ TypesOf(InputRead(acc, call)) \subseteq TypesOf(acc) \cup {call.program}
<1>1. CASE call.program \in OraclePrograms
  <2>1. call.accounts \in Seq(KeySpace)
    BY CallsAreTyped DEF CpiCall, KeySpace
  <2>2. Adds(WithReads(acc, call.program, call.accounts), acc, ToSet(call.accounts), call.program)
    BY <1>1, <2>1, WithReadsFacts
  <2>3. InputRead(acc, call) = WithReads(acc, call.program, call.accounts)
    BY <1>1 DEF InputRead
  <2> QED
    BY <2>2, <2>3 DEF Adds
<1>2. CASE call.program \notin OraclePrograms
  <2>1. InputRead(acc, call) = acc
    BY <1>2 DEF InputRead
  <2> QED
    BY <1>2, <2>1
<1> QED
  BY <1>1, <1>2

\* Every account of a signed oracle instruction is read, each once.
LEMMA InputReadsFacts ==
  ASSUME tx \in Seq(Instructions)
  PROVE  ReadUpTo(InputReads, Len(tx))
<1> DEFINE Acc == Seq(OracleRead)
           step == [x \in Acc \X Instructions |-> InputRead(x[1], x[2])]
           n == Len(tx)
           Eq(h) == h = [s \in SUBSET DOMAIN tx |->
                           IF s = {} THEN <<>> ELSE InputRead(h[s \ {Max(s)}], tx[Max(s)])]
           h == CHOOSE g : Eq(g)
<1>1. n \in Nat /\ DOMAIN tx = 1..n /\ \A i \in 1..n : tx[i] \in Instructions
  OBVIOUS
<1>2. InputReads = h[DOMAIN tx]
  BY DEF InputReads, FoldLeft, MapThenFoldSet, InputRead
<1>3. \A acc \in Acc, call \in Instructions : InputRead(acc, call) \in Acc
  BY InputReadFacts
<1>4. /\ step \in [Acc \X Instructions -> Acc]
      /\ \A acc \in Acc, call \in Instructions : step[<<acc, call>>] = InputRead(acc, call)
  BY <1>3
<1>5. ASSUME NEW s \in SUBSET DOMAIN tx, s # {}
      PROVE  tx[Max(s)] \in Instructions /\ s \ {Max(s)} \in SUBSET DOMAIN tx
  BY <1>1, <1>5, LastOfSome
<1> HIDE DEF step, n
<1>6. <<>> \in Acc
  OBVIOUS
<1> HIDE DEF Acc
<1>7. PICK g \in [SUBSET DOMAIN tx -> Acc] : IsFold(g, step, <<>>, tx)
  BY <1>4, <1>6, FoldExists
<1>8. \A s \in SUBSET DOMAIN tx :
         g[s] = IF s = {} THEN <<>> ELSE InputRead(g[s \ {Max(s)}], tx[Max(s)])
  BY <1>4, <1>5, <1>7 DEF IsFold
<1>9. Eq(h)
  <2>1. Eq(g)
    BY <1>8
  <2> QED
    BY <2>1
<1> HIDE DEF h
<1>10. FoldsIn(h, Acc, step, <<>>, tx)
  BY <1>4, <1>5, <1>9 DEF FoldsIn
<1> HIDE DEF Eq
<1>11. PICK r \in [0..n -> Acc] : Loops(r, step, <<>>, tx, h[DOMAIN tx])
  BY <1>4, <1>6, <1>10, FoldRuns DEF n
<1> DEFINE Done == {i \in 0..n : ReadUpTo(r[i], i)}
<1>12. 0 \in Done
  <2>1. r[0] = <<>> /\ 1..0 = {} /\ 0 \in 0..n /\ DOMAIN <<>> = {}
    BY <1>1, <1>11 DEF Loops
  <2>2. ReadUpTo(<<>>, 0)
    BY <1>6, <2>1 DEF ReadUpTo, EachOnce, TypesOf, Acc
  <2> QED
    BY <2>1, <2>2
<1>13. \A i \in 1..n : i - 1 \in Done => i \in Done
  <2> SUFFICES ASSUME NEW i \in 1..n, i - 1 \in Done PROVE i \in Done
    OBVIOUS
  <2>1. ReadUpTo(r[i - 1], i - 1)
    OBVIOUS
  <2> HIDE DEF Done
  <2>2. i \in 0..n /\ i - 1 \in 0..n /\ 1..i = 1..(i - 1) \cup {i} /\ tx[i] \in Instructions
    BY <1>1
  <2>3. r[i - 1] \in Acc /\ r[i] = InputRead(r[i - 1], tx[i])
    BY <1>4, <1>11, <2>2 DEF Loops, n
  <2>4. ReadUpTo(r[i], i)
    <3> DEFINE a == r[i - 1]
               b == r[i]
    <3>1. /\ b \in Seq(OracleRead)
          /\ EachOnce(a) => EachOnce(b)
          /\ KeysOf(a) \subseteq KeysOf(b)
          /\ tx[i].program \in OraclePrograms
                => ToSet(tx[i].accounts) \ OraclePrograms \subseteq KeysOf(b)
          /\ TypesOf(b) \subseteq TypesOf(a) \cup {tx[i].program}
      BY <2>2, <2>3, InputReadFacts, Zenon DEF Acc
    <3> HIDE DEF a, b
    <3>2. ReadUpTo(a, i - 1)
      BY <2>1 DEF a
    <3>3. ReadUpTo(b, i)
      BY <2>2, <3>1, <3>2 DEF ReadUpTo
    <3> QED
      BY <3>3 DEF b
  <2> QED
    BY <2>2, <2>4 DEF Done
<1>14. n \in Done
  <2> HIDE DEF Done
  <2>1. \A i \in 0..n : i \in Done
    BY <1>1, <1>12, <1>13, UpToN, Zenon
  <2> QED
    BY <1>1, <2>1
<1>15. InputReads = r[n]
  BY <1>2, <1>11 DEF Loops, n
<1> QED
  BY <1>14, <1>15 DEF n

\* The log layer keeps the reads, adds none twice, and when it runs for an oracle
\* every account of the transaction is read.
LEMMA LogReadsFacts ==
  ASSUME NEW reads \in Seq(OracleRead), NEW oracle \in OraclePrograms
  PROVE  /\ LogReads(reads, oracle) \in Seq(OracleRead)
         /\ EachOnce(reads) => EachOnce(LogReads(reads, oracle))
         /\ KeysOf(reads) \subseteq KeysOf(LogReads(reads, oracle))
         /\ TypesOf(LogReads(reads, oracle)) \subseteq TypesOf(reads) \cup {oracle}
         /\ oracle \in Logged /\ oracle \notin TypesOf(reads)
               => (KeySpace \cap Named) \ OraclePrograms \subseteq KeysOf(LogReads(reads, oracle))
<1>1. oracle \notin TypesOf(reads) <=> \A i \in DOMAIN reads : reads[i].oracle_type # oracle
  BY DEF TypesOf
<1>2. CASE oracle \in Logged /\ oracle \notin TypesOf(reads)
  <2>1. LogReads(reads, oracle) = WithReads(reads, oracle, account_keys)
    BY <1>1, <1>2 DEF LogReads
  <2>2. Adds(WithReads(reads, oracle, account_keys), reads, ToSet(account_keys), oracle)
    BY AccountKeysFacts, WithReadsFacts
  <2> QED
    BY <2>1, <2>2, AccountKeysFacts DEF Adds
<1>3. CASE ~(oracle \in Logged /\ oracle \notin TypesOf(reads))
  <2>1. LogReads(reads, oracle) = reads
    BY <1>1, <1>3 DEF LogReads
  <2> QED
    BY <1>3, <2>1
<1> QED
  BY <1>2, <1>3

\* What the trace's reads cover: the accounts of the signed oracle instructions, and
\* all accounts of the transaction for an oracle that only inner calls invoke.
ReadsCover(reads) ==
    /\ reads \in Seq(OracleRead) /\ EachOnce(reads)
    /\ \A j \in DOMAIN tx : tx[j].program \in OraclePrograms
          => ToSet(tx[j].accounts) \ OraclePrograms \subseteq KeysOf(reads)
    /\ \A oracle \in OraclePrograms :
          oracle \in Logged /\ (\A j \in DOMAIN tx : tx[j].program # oracle)
             => (KeySpace \cap Named) \ OraclePrograms \subseteq KeysOf(reads)

LEMMA DetectedReads ==
  ASSUME tx \in Seq(Instructions)
  PROVE  ReadsCover(detect_oracle_reads)
<1> DEFINE first == InputReads
           second == LogReads(first, "SWITCHBOARD_V2")
           third == LogReads(second, "PYTH")
           All == (KeySpace \cap Named) \ OraclePrograms
<1>1. detect_oracle_reads = third
  BY DEF detect_oracle_reads
<1>2. ReadUpTo(first, Len(tx)) /\ DOMAIN tx = 1..Len(tx)
  BY InputReadsFacts
<1>3. first \in Seq(OracleRead) /\ EachOnce(first)
  BY <1>2 DEF ReadUpTo
<1>4. /\ "SWITCHBOARD_V2" \in OraclePrograms /\ "PYTH" \in OraclePrograms
      /\ \A oracle \in OraclePrograms : oracle = "SWITCHBOARD_V2" \/ oracle = "PYTH"
  BY DEF OraclePrograms
<1>5. /\ second \in Seq(OracleRead)
      /\ EachOnce(first) => EachOnce(second)
      /\ KeysOf(first) \subseteq KeysOf(second)
      /\ TypesOf(second) \subseteq TypesOf(first) \cup {"SWITCHBOARD_V2"}
      /\ "SWITCHBOARD_V2" \in Logged /\ "SWITCHBOARD_V2" \notin TypesOf(first)
            => All \subseteq KeysOf(second)
  <2> HIDE DEF first
  <2> QED
    BY <1>3, <1>4, LogReadsFacts, Zenon
<1>6. /\ third \in Seq(OracleRead)
      /\ EachOnce(second) => EachOnce(third)
      /\ KeysOf(second) \subseteq KeysOf(third)
      /\ "PYTH" \in Logged /\ "PYTH" \notin TypesOf(second) => All \subseteq KeysOf(third)
  <2> HIDE DEF second
  <2> QED
    BY <1>4, <1>5, LogReadsFacts, Zenon
<1> HIDE DEF first, second, third, All
<1>7. third \in Seq(OracleRead) /\ EachOnce(third)
  BY <1>3, <1>5, <1>6
<1>8. \A j \in DOMAIN tx : tx[j].program \in OraclePrograms
         => ToSet(tx[j].accounts) \ OraclePrograms \subseteq KeysOf(third)
  BY <1>2, <1>5, <1>6 DEF ReadUpTo
<1>9. ASSUME NEW oracle \in OraclePrograms, oracle \in Logged,
             \A j \in DOMAIN tx : tx[j].program # oracle
      PROVE  All \subseteq KeysOf(third)
  <2>1. oracle \notin TypesOf(first)
    BY <1>2, <1>9 DEF ReadUpTo
  <2>2. CASE oracle = "SWITCHBOARD_V2"
    BY <1>5, <1>6, <1>9, <2>1, <2>2
  <2>3. CASE oracle = "PYTH"
    <3>1. oracle \notin TypesOf(second)
      BY <1>5, <2>1, <2>3
    <3> QED
      BY <1>6, <1>9, <2>3, <3>1
  <2> QED
    BY <1>4, <2>2, <2>3
<1> QED
  BY <1>1, <1>7, <1>8, <1>9 DEF ReadsCover, All

\* The keys of the reads, each once.
LEMMA ReadKeysFacts ==
  ASSUME tx \in Seq(Instructions)
  PROVE  /\ ReadKeys \in Seq(KeySpace) /\ ToSet(ReadKeys) = KeysOf(detect_oracle_reads)
         /\ \A i, j \in DOMAIN ReadKeys : ReadKeys[i] = ReadKeys[j] => i = j
<1> DEFINE reads == detect_oracle_reads
<1>1. reads \in Seq(OracleRead) /\ EachOnce(reads)
  BY DetectedReads DEF ReadsCover
<1>2. ReadKeys = [i \in DOMAIN reads |-> reads[i].oracle_pubkey]
  BY DEF ReadKeys
<1> HIDE DEF reads
<1>3. \A i \in DOMAIN reads : reads[i].oracle_pubkey \in KeySpace
  <2>1. \A i \in DOMAIN reads : reads[i] \in OracleRead
    BY <1>1
  <2> QED
    BY <2>1 DEF OracleRead
<1>4. DOMAIN reads = 1..Len(reads) /\ Len(reads) \in Nat
  BY <1>1
<1>5. ReadKeys \in Seq(KeySpace) /\ DOMAIN ReadKeys = DOMAIN reads
  BY <1>2, <1>3, <1>4
<1> QED
  BY <1>1, <1>2, <1>5 DEF ToSet, KeysOf, EachOnce, reads

LEMMA CoverInvariant == SimTypes => OracleCallsAreRead
<1> SUFFICES ASSUME SimTypes, NEW c \in OracleCalls,
                    NEW k \in ToSet(c.accounts) \ OraclePrograms
             PROVE  \/ k \in ToSet(ReadKeys)
                    \/ c \notin ToSet(tx) /\ \E i \in DOMAIN tx : tx[i].program = c.program
  BY DEF OracleCallsAreRead
<1>1. tx \in Seq(Instructions)
  BY DEF SimTypes
<1>2. GraphShape
  BY GraphFacts
<1>3. ReadsCover(detect_oracle_reads) /\ ToSet(ReadKeys) = KeysOf(detect_oracle_reads)
  BY <1>1, DetectedReads, ReadKeysFacts
<1>4. /\ c.program \in OraclePrograms
      /\ \E i \in DOMAIN extract_cpi_graph : c = extract_cpi_graph[i].call
  BY DEF OracleCalls
<1>5. CASE c \in ToSet(tx)
  <2>1. PICK j \in DOMAIN tx : c = tx[j]
    BY <1>5 DEF ToSet
  <2> QED
    BY <1>3, <1>4, <2>1 DEF ReadsCover
<1>6. CASE c \notin ToSet(tx) /\ \A j \in DOMAIN tx : tx[j].program # c.program
  <2>1. PICK m \in DOMAIN extract_cpi_graph : c = extract_cpi_graph[m].call
    BY <1>4
  <2>2. m \notin DOMAIN tx
    <3>1. ASSUME m \in DOMAIN tx PROVE FALSE
      <4>1. m \in 1..Len(tx)
        BY <1>1, <3>1
      <4>2. extract_cpi_graph[m] = [call |-> tx[m], index |-> m, height |-> 1]
        BY <1>2, <4>1, Zenon DEF GraphShape
      <4>3. extract_cpi_graph[m].call = tx[m]
        BY <4>2
      <4> QED
        BY <1>6, <2>1, <3>1, <4>3 DEF ToSet
    <3> QED
      BY <3>1
  <2>3. PICK i \in 1..Len(inner) : m = Len(tx) + i
    <3>1. m \in 1..(Len(tx) + Len(inner)) /\ m \notin 1..Len(tx) /\ Len(tx) \in Nat /\ Len(inner) \in Nat
      BY <1>1, <1>2, <2>2 DEF GraphShape
    <3>2. m - Len(tx) \in 1..Len(inner) /\ m = Len(tx) + (m - Len(tx))
      BY <3>1
    <3> QED
      BY <3>2
  <2>4. c = inner[i].call
    <3>1. extract_cpi_graph[Len(tx) + i]
             = [call |-> inner[i].call, index |-> inner[i].index, height |-> inner[i].height]
      BY <1>2, Zenon DEF GraphShape
    <3> QED
      BY <2>1, <2>3, <3>1
  <2>5. c.program \in Logged
    <3>1. DOMAIN inner = 1..Len(inner)
      BY DEF SimTypes
    <3> QED
      BY <2>3, <2>4, <3>1 DEF Logged
  <2>6. c \in Instructions
    <3> DEFINE Node == [call : Instructions, index : Nat, height : Nat]
    <3>1. extract_cpi_graph \in Seq(Node)
      BY <1>2 DEF GraphShape
    <3> HIDE DEF Node
    <3>2. extract_cpi_graph[m] \in Node
      BY <2>1, <3>1
    <3> QED
      BY <2>1, <3>2 DEF Node
  <2>7. k \in KeySpace
    <3>1. c.accounts \in Seq(Keys)
      BY <2>6, CallsAreTyped DEF CpiCall
    <3> QED
      BY <3>1 DEF ToSet, KeySpace
  <2>8. k \in Named
    <3> DEFINE calls == {extract_cpi_graph[j].call : j \in DOMAIN extract_cpi_graph}
    <3>1. c \in calls
      BY <2>1
    <3>2. k \in UNION {ToSet(d.accounts) : d \in calls}
      BY <3>1
    <3> QED
      BY <3>2 DEF Named
  <2>9. (KeySpace \cap Named) \ OraclePrograms \subseteq KeysOf(detect_oracle_reads)
    BY <1>3, <1>4, <1>6, <2>5 DEF ReadsCover
  <2> QED
    BY <1>3, <2>7, <2>8, <2>9
<1> QED
  BY <1>5, <1>6

\* executor.rs, detect_oracle_reads: the two layers miss no account of an oracle
\* call, signed or made by a program, except when a signed instruction calls the
\* same oracle.  For any transaction and any calls, wherever the simulation stopped.
THEOREM OracleReadsAreComplete == Spec => []OracleCallsAreRead
<1>1. SimTypes => OracleCallsAreRead
  BY CoverInvariant
<1> QED
  BY <1>1, SimTypesHold, PTL
----------------------------------------------------------------------------
(* The feeds.                                                              *)

\* Two assets have no feed in common.
LEMMA FeedTable ==
  ASSUME NEW a \in DOMAIN default_mainnet, NEW b \in DOMAIN default_mainnet,
         {default_mainnet[a].switchboard, default_mainnet[a].pyth}
            \cap {default_mainnet[b].switchboard, default_mainnet[b].pyth} # {}
  PROVE  a = b
<1>1. DOMAIN PairedFeeds = {"SOL", "BTC", "ETH", "USDC", "BONK", "JTO", "PYTH"}
  BY DEF PairedFeeds
<1>2. DOMAIN default_mainnet = SharedFeeds \cup DOMAIN PairedFeeds
  BY DEF default_mainnet
<1>3. DOMAIN PairedFeeds \cap SharedFeeds = {}
  BY <1>1 DEF SharedFeeds
<1>4. \A c \in SharedFeeds : default_mainnet[c] = [switchboard |-> c, pyth |-> c]
  BY <1>2 DEF default_mainnet
<1>5. \A c \in DOMAIN PairedFeeds : default_mainnet[c] = PairedFeeds[c]
  BY <1>2, <1>3 DEF default_mainnet
<1>6. /\ PairedFeeds["SOL"] = [switchboard |-> "SOL_SB", pyth |-> "SOL_PYTH"]
      /\ PairedFeeds["BTC"] = [switchboard |-> "BTC_SB", pyth |-> "BTC_PYTH"]
      /\ PairedFeeds["ETH"] = [switchboard |-> "ETH_SB", pyth |-> "ETH_PYTH"]
      /\ PairedFeeds["USDC"] = [switchboard |-> "USDC_SB", pyth |-> "USDC_PYTH"]
      /\ PairedFeeds["BONK"] = [switchboard |-> "BONK_SB", pyth |-> "BONK_PYTH"]
      /\ PairedFeeds["JTO"] = [switchboard |-> "JTO_SB", pyth |-> "JTO_PYTH"]
      /\ PairedFeeds["PYTH"] = [switchboard |-> "PYTH_SB", pyth |-> "PYTH_PYTH"]
  BY DEF PairedFeeds
<1>7. ASSUME NEW c \in DOMAIN PairedFeeds PROVE PairedFeeds[c].switchboard \notin SharedFeeds /\ PairedFeeds[c].pyth \notin SharedFeeds
  BY <1>1, <1>6 DEF SharedFeeds
<1>8. ASSUME NEW c \in DOMAIN PairedFeeds, NEW d \in DOMAIN PairedFeeds,
             {PairedFeeds[c].switchboard, PairedFeeds[c].pyth}
               \cap {PairedFeeds[d].switchboard, PairedFeeds[d].pyth} # {}
      PROVE  c = d
  BY <1>1, <1>6, <1>8
<1> QED
  BY <1>2, <1>4, <1>5, <1>7, <1>8

\* A feed is paired with at most one other, and that one with it.
LEMMA CrossFacts ==
  ASSUME NEW key, NEW cross \in cross_reference(key)
  PROVE  cross_reference(key) = {cross} /\ cross_reference(cross) = {key}
<1> DEFINE sb(a) == default_mainnet[a].switchboard
           py(a) == default_mainnet[a].pyth
           Other(k, a) == IF py(a) = k THEN sb(a) ELSE py(a)
<1>1. PICK a \in asset_for(key) : cross = Other(key, a)
  BY DEF cross_reference, IsPythFeed
<1>2. \A k : asset_for(k) = {b \in DOMAIN default_mainnet : k \in {sb(b), py(b)}}
  BY DEF asset_for
<1>3. a \in DOMAIN default_mainnet /\ key \in {sb(a), py(a)} /\ cross \in {sb(a), py(a)}
  BY <1>1, <1>2
<1>4. ASSUME NEW k \in {sb(a), py(a)} PROVE asset_for(k) = {a}
  <2>1. a \in asset_for(k)
    BY <1>2, <1>3
  <2>2. ASSUME NEW b \in asset_for(k) PROVE b = a
    <3>1. b \in DOMAIN default_mainnet /\ k \in {sb(b), py(b)} \cap {sb(a), py(a)}
      BY <1>2
    <3> QED
      BY <1>3, <3>1, FeedTable
  <2> QED
    BY <2>1, <2>2
<1>5. \A k \in {sb(a), py(a)} : cross_reference(k) = {Other(k, a)}
  BY <1>4 DEF cross_reference, IsPythFeed
<1> QED
  BY <1>1, <1>3, <1>5

\* Prices and confidences are numbers.
PricesTyped(cache) ==
    \A k \in DOMAIN cache.prices : cache.prices[k].price \in Int /\ cache.prices[k].confidence \in Int

\* It does not matter which of two feeds is compared with the other.
LEMMA DeviatesBothWays ==
  ASSUME NEW cache, PricesTyped(cache), NEW key, NEW cross, Deviates(cache, key, cross)
  PROVE  Deviates(cache, cross, key)
<1> DEFINE p == cache.prices[key]
           q == cache.prices[cross]
<1>1. {key, cross} \subseteq DOMAIN cache.prices
  BY DEF Deviates
<1>2. /\ p.price \in Int /\ p.confidence \in Int /\ q.price \in Int /\ q.confidence \in Int
  BY <1>1 DEF PricesTyped
<1> QED
  BY <1>1, <1>2 DEF Deviates, Magnitude, sigma_threshold
----------------------------------------------------------------------------
(* The loop over the reads.                                                *)

\* No element occurs twice.
Distinct(seq) == \A i, j \in DOMAIN seq : seq[i] = seq[j] => i = j

FlagCodes == {"UNKNOWN_ORACLE_ACCOUNT", "STALE_ORACLE_FEED", "WIDE_CONFIDENCE_INTERVAL",
              "ORACLE_DEVIATION_3_SIGMA"}

\* The accounts that flags on reads of some keys can be about.
Subjects(K) == K \cup UNION {cross_reference(k) : k \in K}

OracleFlag(K) == [code : FlagCodes, subject : SUBSET Subjects(K)]

LoopState(K) == [flags : Seq(OracleFlag(K)), checked_pairs : SUBSET SUBSET Subjects(K)]

\* longer is flags with some new ones added, each once.
Raises(longer, flags, added) ==
    /\ ToSet(longer) = ToSet(flags) \cup added
    /\ Distinct(flags) /\ added \cap ToSet(flags) = {} => Distinct(longer)

\* The flag, if there is one.
MaybeFlag(cond, code, subject) == {f \in {[code |-> code, subject |-> subject]} : cond}

LEMMA FlagIfFacts ==
  ASSUME NEW F, NEW flags \in Seq(F), NEW cond, NEW code, NEW subject,
         [code |-> code, subject |-> subject] \in F
  PROVE  /\ flags \o FlagIf(cond, code, subject) \in Seq(F)
         /\ Raises(flags \o FlagIf(cond, code, subject), flags, MaybeFlag(cond, code, subject))
<1> DEFINE new == [code |-> code, subject |-> subject]
<1>1. CASE cond
  <2>1. FlagIf(cond, code, subject) = <<new>> /\ MaybeFlag(cond, code, subject) = {new}
    BY <1>1 DEF FlagIf, MaybeFlag
  <2>2. new \in F
    OBVIOUS
  <2> HIDE DEF new
  <2> DEFINE longer == flags \o <<new>>
  <2>3. /\ longer \in Seq(F) /\ DOMAIN longer = DOMAIN flags \cup {Len(flags) + 1}
        /\ longer[Len(flags) + 1] = new /\ Len(flags) + 1 \notin DOMAIN flags
        /\ \A i \in DOMAIN flags : longer[i] = flags[i]
    BY <2>2
  <2> HIDE DEF longer
  <2>4. ToSet(longer) = ToSet(flags) \cup {new}
    BY <2>3 DEF ToSet
  <2>5. Distinct(flags) /\ new \notin ToSet(flags) => Distinct(longer)
    BY <2>3 DEF Distinct, ToSet
  <2> QED
    BY <2>1, <2>3, <2>4, <2>5 DEF Raises, longer
<1>2. CASE ~cond
  <2>1. FlagIf(cond, code, subject) = <<>> /\ MaybeFlag(cond, code, subject) = {}
    BY <1>2 DEF FlagIf, MaybeFlag
  <2>2. flags \o <<>> = flags
    OBVIOUS
  <2> QED
    BY <2>1, <2>2 DEF Raises
<1> QED
  BY <1>1, <1>2

\* The flags on one read by itself, and the deviation from the paired feed.
OwnFlags(cache, key) ==
    IF key \notin DOMAIN cache.prices
    THEN MaybeFlag(~is_known(key), "UNKNOWN_ORACLE_ACCOUNT", {key})
    ELSE MaybeFlag(IsStale(cache, key), "STALE_ORACLE_FEED", {key})
         \cup MaybeFlag(HasWideConfidence(cache, key), "WIDE_CONFIDENCE_INTERVAL", {key})

PairFlags(cache, key) ==
    MaybeFlag(\E cross \in cross_reference(key) : Deviates(cache, key, cross),
              "ORACLE_DEVIATION_3_SIGMA", {key} \cup cross_reference(key))

\* The flags that reads of the keys in S deserve, in whatever order.
Anomalies(cache, S) == UNION {OwnFlags(cache, k) \cup PairFlags(cache, k) : k \in S}

\* The pairs that those reads make the loop compare.
PairsOf(key) == {{key, cross} : cross \in cross_reference(key)}

Compared(cache, S) == UNION {PairsOf(k) : k \in S \cap DOMAIN cache.prices}

\* The deviation, if the pair was not compared before.
NewPairFlags(cache, acc, key) ==
    MaybeFlag(\E cross \in cross_reference(key) :
                 {key, cross} \notin acc.checked_pairs /\ Deviates(cache, key, cross),
              "ORACLE_DEVIATION_3_SIGMA", {key} \cup cross_reference(key))

\* One iteration of the loop, from acc to next.
Iterates(cache, K, acc, key, next) ==
    /\ next \in LoopState(K)
    /\ next.checked_pairs = acc.checked_pairs \cup Compared(cache, {key})
    /\ Raises(next.flags, acc.flags, OwnFlags(cache, key) \cup NewPairFlags(cache, acc, key))

LEMMA CheckReadFacts ==
  ASSUME NEW cache, NEW K, NEW acc \in LoopState(K), NEW key \in K
  PROVE  Iterates(cache, K, acc, key, CheckRead(cache, acc, key))
<1> DEFINE next == CheckRead(cache, acc, key)
           F == OracleFlag(K)
<1>1. acc.flags \in Seq(F) /\ acc.checked_pairs \in SUBSET SUBSET Subjects(K)
  BY DEF LoopState
<1>2. {key} \in SUBSET Subjects(K) /\ {key} \cup cross_reference(key) \in SUBSET Subjects(K)
  BY DEF Subjects
<1>3. /\ [code |-> "UNKNOWN_ORACLE_ACCOUNT", subject |-> {key}] \in F
      /\ [code |-> "STALE_ORACLE_FEED", subject |-> {key}] \in F
      /\ [code |-> "WIDE_CONFIDENCE_INTERVAL", subject |-> {key}] \in F
      /\ [code |-> "ORACLE_DEVIATION_3_SIGMA", subject |-> {key} \cup cross_reference(key)] \in F
  BY <1>2 DEF OracleFlag, FlagCodes
<1> HIDE DEF F
<1>4. CASE key \notin DOMAIN cache.prices
  <2> DEFINE longer == acc.flags \o FlagIf(~is_known(key), "UNKNOWN_ORACLE_ACCOUNT", {key})
  <2>1. next = [acc EXCEPT !.flags = longer]
    BY <1>4 DEF CheckRead
  <2>2. /\ longer \in Seq(F)
        /\ Raises(longer, acc.flags, MaybeFlag(~is_known(key), "UNKNOWN_ORACLE_ACCOUNT", {key}))
    BY <1>1, <1>3, FlagIfFacts, Zenon
  <2> HIDE DEF longer, next
  <2>3. next = [flags |-> longer, checked_pairs |-> acc.checked_pairs]
    BY <2>1 DEF LoopState
  <2>4. next.flags = longer /\ next.checked_pairs = acc.checked_pairs
    BY <2>3
  <2>5. next \in LoopState(K)
    BY <1>1, <2>2, <2>3 DEF LoopState, F
  <2>6. Compared(cache, {key}) = {}
    BY <1>4 DEF Compared
  <2>7. NewPairFlags(cache, acc, key) = {}
    BY <1>4 DEF NewPairFlags, MaybeFlag, Deviates
  <2>8. OwnFlags(cache, key) = MaybeFlag(~is_known(key), "UNKNOWN_ORACLE_ACCOUNT", {key})
    BY <1>4 DEF OwnFlags
  <2>9. Raises(next.flags, acc.flags, OwnFlags(cache, key) \cup NewPairFlags(cache, acc, key))
    BY <2>2, <2>4, <2>7, <2>8 DEF Raises
  <2>10. next.checked_pairs = acc.checked_pairs \cup Compared(cache, {key})
    BY <2>4, <2>6
  <2> QED
    BY <2>5, <2>9, <2>10 DEF Iterates, next
<1>5. CASE key \in DOMAIN cache.prices
  <2> DEFINE deviates == \E cross \in cross_reference(key) :
                            {key, cross} \in NewPairs(acc, key) /\ Deviates(cache, key, cross)
             stale == IsStale(cache, key)
             wide == HasWideConfidence(cache, key)
             both == {key} \cup cross_reference(key)
             f0 == acc.flags
             f1 == f0 \o FlagIf(stale, "STALE_ORACLE_FEED", {key})
             f2 == f1 \o FlagIf(wide, "WIDE_CONFIDENCE_INTERVAL", {key})
             f3 == f2 \o FlagIf(deviates, "ORACLE_DEVIATION_3_SIGMA", both)
             a1 == MaybeFlag(stale, "STALE_ORACLE_FEED", {key})
             a2 == MaybeFlag(wide, "WIDE_CONFIDENCE_INTERVAL", {key})
             a3 == MaybeFlag(deviates, "ORACLE_DEVIATION_3_SIGMA", both)
             pairs == acc.checked_pairs \cup NewPairs(acc, key)
  <2>1. next = [flags |-> f3, checked_pairs |-> pairs]
    BY <1>5 DEF CheckRead
  <2>2. a1 \cup a2 = OwnFlags(cache, key)
    BY <1>5 DEF OwnFlags
  <2>3. a3 = NewPairFlags(cache, acc, key)
    BY DEF NewPairFlags, NewPairs, MaybeFlag
  <2>4. pairs = acc.checked_pairs \cup Compared(cache, {key})
    <3>1. Compared(cache, {key}) = PairsOf(key)
      BY <1>5 DEF Compared
    <3> QED
      BY <3>1 DEF NewPairs, PairsOf
  <2>5. pairs \in SUBSET SUBSET Subjects(K)
    <3>1. PairsOf(key) \in SUBSET SUBSET Subjects(K)
      BY <1>2 DEF PairsOf
    <3> QED
      BY <1>1, <3>1 DEF NewPairs, PairsOf
  <2>6. a1 \cap a2 = {} /\ (a1 \cup a2) \cap a3 = {}
    BY DEF MaybeFlag
  <2> HIDE DEF deviates, stale, wide, both, pairs, next
  <2>7. f1 \in Seq(F) /\ Raises(f1, f0, a1)
    BY <1>1, <1>3, FlagIfFacts, Zenon
  <2> HIDE DEF f0, f1, a1
  <2>8. f2 \in Seq(F) /\ Raises(f2, f1, a2)
    BY <1>3, <2>7, FlagIfFacts, Zenon
  <2> HIDE DEF f2, a2
  <2>9. f3 \in Seq(F) /\ Raises(f3, f2, a3)
    BY <1>3, <2>8, FlagIfFacts, Zenon DEF both
  <2> HIDE DEF f3, a3
  <2>10. Raises(f3, f0, a1 \cup a2 \cup a3)
    BY <2>6, <2>7, <2>8, <2>9 DEF Raises
  <2>11. next \in LoopState(K) /\ next.flags = f3 /\ next.checked_pairs = pairs
    BY <2>1, <2>5, <2>9 DEF LoopState, F
  <2> QED
    BY <2>2, <2>3, <2>4, <2>10, <2>11 DEF Iterates, f0, next
<1> QED
  BY <1>4, <1>5

\* What the loop has once it went through the keys in S, in whatever order.
Seen(cache, acc, S) ==
    /\ Distinct(acc.flags)
    /\ ToSet(acc.flags) = Anomalies(cache, S)
    /\ acc.checked_pairs = Compared(cache, S)

\* A read of another key adds exactly what is missing: the flag of a pair is there
\* already when the other feed of the pair was read before.
LEMMA SeenStep ==
  ASSUME NEW cache, PricesTyped(cache), NEW K, NEW acc, NEW key, NEW next,
         NEW S, key \notin S, Iterates(cache, K, acc, key, next), Seen(cache, acc, S)
  PROVE  Seen(cache, next, S \cup {key})
<1> DEFINE own == OwnFlags(cache, key)
           pair == PairFlags(cache, key)
           new == NewPairFlags(cache, acc, key)
           cached == DOMAIN cache.prices
<1>1. next.checked_pairs = Compared(cache, S \cup {key})
  BY DEF Iterates, Seen, Compared
<1>2. Anomalies(cache, S \cup {key}) = Anomalies(cache, S) \cup own \cup pair
  BY DEF Anomalies
<1>3. ASSUME NEW cross \in cross_reference(key), Deviates(cache, key, cross)
      PROVE  {key, cross} \in acc.checked_pairs <=> cross \in S
  <2>1. cross_reference(key) = {cross} /\ cross_reference(cross) = {key}
    BY CrossFacts
  <2>2. {key, cross} \subseteq cached
    BY <1>3 DEF Deviates
  <2>3. ASSUME cross \in S PROVE {key, cross} \in acc.checked_pairs
    <3>1. {key, cross} \in PairsOf(cross)
      <4>1. {cross, key} \in PairsOf(cross)
        BY <2>1 DEF PairsOf
      <4>2. {cross, key} = {key, cross}
        OBVIOUS
      <4> QED
        BY <4>1, <4>2
    <3> QED
      BY <2>2, <2>3, <3>1 DEF Seen, Compared
  <2>4. ASSUME {key, cross} \in acc.checked_pairs PROVE cross \in S
    <3>1. PICK k \in S \cap cached : {key, cross} \in PairsOf(k)
      BY <2>4 DEF Seen, Compared
    <3>2. PICK c \in cross_reference(k) : {key, cross} = {k, c}
      BY <3>1 DEF PairsOf
    <3>3. k \in {key, cross}
      BY <3>2
    <3> QED
      BY <3>1, <3>3
  <2> QED
    BY <2>3, <2>4
<1>4. Anomalies(cache, S) \cup pair = Anomalies(cache, S) \cup new
  <2>1. new \subseteq pair
    BY DEF NewPairFlags, PairFlags, MaybeFlag
  <2>2. ASSUME NEW f \in pair, f \notin new PROVE f \in Anomalies(cache, S)
    <3>1. /\ f = [code |-> "ORACLE_DEVIATION_3_SIGMA", subject |-> {key} \cup cross_reference(key)]
          /\ \E cross \in cross_reference(key) : Deviates(cache, key, cross)
      BY DEF PairFlags, MaybeFlag
    <3>2. PICK cross \in cross_reference(key) : Deviates(cache, key, cross)
      BY <3>1
    <3>3. {key, cross} \in acc.checked_pairs
      BY <2>2, <3>1, <3>2 DEF NewPairFlags, MaybeFlag
    <3>4. cross \in S
      BY <1>3, <3>2, <3>3
    <3>5. cross_reference(key) = {cross} /\ cross_reference(cross) = {key}
      BY CrossFacts
    <3>6. Deviates(cache, cross, key)
      BY <3>2, DeviatesBothWays
    <3>7. {key} \cup cross_reference(key) = {cross} \cup cross_reference(cross)
      BY <3>5
    <3>8. f \in PairFlags(cache, cross)
      BY <3>1, <3>5, <3>6, <3>7 DEF PairFlags, MaybeFlag
    <3> QED
      BY <3>4, <3>8 DEF Anomalies
  <2> QED
    BY <2>1, <2>2
<1>5. own \cap Anomalies(cache, S) = {}
  <2> SUFFICES ASSUME NEW f \in own, f \in Anomalies(cache, S) PROVE FALSE
    OBVIOUS
  <2>1. f.subject = {key} /\ f.code # "ORACLE_DEVIATION_3_SIGMA"
    BY DEF OwnFlags, MaybeFlag
  <2>2. PICK k \in S : f \in OwnFlags(cache, k) \cup PairFlags(cache, k)
    BY DEF Anomalies
  <2>3. f.code = "ORACLE_DEVIATION_3_SIGMA" \/ f.subject = {k}
    BY <2>2 DEF OwnFlags, PairFlags, MaybeFlag
  <2> QED
    BY <2>1, <2>2, <2>3
<1>6. new \cap Anomalies(cache, S) = {}
  <2> SUFFICES ASSUME NEW f \in new, f \in Anomalies(cache, S) PROVE FALSE
    OBVIOUS
  <2>1. /\ f = [code |-> "ORACLE_DEVIATION_3_SIGMA", subject |-> {key} \cup cross_reference(key)]
        /\ \E cross \in cross_reference(key) :
              {key, cross} \notin acc.checked_pairs /\ Deviates(cache, key, cross)
    BY DEF NewPairFlags, MaybeFlag
  <2>2. PICK cross \in cross_reference(key) :
           {key, cross} \notin acc.checked_pairs /\ Deviates(cache, key, cross)
    BY <2>1
  <2>3. cross_reference(key) = {cross} /\ cross \notin S
    BY <1>3, <2>2, CrossFacts
  <2>4. f.code = "ORACLE_DEVIATION_3_SIGMA" /\ f.subject = {key, cross}
    BY <2>1, <2>3
  <2>5. PICK k \in S : f \in OwnFlags(cache, k) \cup PairFlags(cache, k)
    BY DEF Anomalies
  <2>6. k \in f.subject
    BY <2>5 DEF OwnFlags, PairFlags, MaybeFlag
  <2> QED
    BY <2>3, <2>4, <2>5, <2>6
<1>7. Raises(next.flags, acc.flags, own \cup new)
  BY DEF Iterates
<1> HIDE DEF own, pair, new
<1>8. ToSet(next.flags) = Anomalies(cache, S) \cup own \cup new
  BY <1>7 DEF Raises, Seen
<1>9. Distinct(next.flags)
  BY <1>5, <1>6, <1>7 DEF Raises, Seen
<1>10. ToSet(next.flags) = Anomalies(cache, S \cup {key})
  BY <1>2, <1>4, <1>8
<1> QED
  BY <1>1, <1>9, <1>10 DEF Seen

\* The loop reports each anomaly of the feeds it reads, and each once.
LEMMA OracleFlagsFacts ==
  ASSUME NEW cache, PricesTyped(cache), NEW K, NEW reads \in Seq(K), Distinct(reads)
  PROVE  /\ OracleFlags(cache, reads) \in Seq(OracleFlag(K))
         /\ Distinct(OracleFlags(cache, reads))
         /\ ToSet(OracleFlags(cache, reads)) = Anomalies(cache, ToSet(reads))
<1> DEFINE Acc == LoopState(K)
           base == [flags |-> <<>>, checked_pairs |-> {}]
           step == [x \in Acc \X K |-> CheckRead(cache, x[1], x[2])]
           n == Len(reads)
           Eq(h) == h = [s \in SUBSET DOMAIN reads |->
                           IF s = {} THEN base
                           ELSE CheckRead(cache, h[s \ {Max(s)}], reads[Max(s)])]
           h == CHOOSE g : Eq(g)
<1>1. n \in Nat /\ DOMAIN reads = 1..n /\ \A i \in 1..n : reads[i] \in K
  OBVIOUS
<1>2. OracleFlags(cache, reads) = h[DOMAIN reads].flags
  BY DEF OracleFlags, FoldLeft, MapThenFoldSet
<1>3. \A acc \in Acc, k \in K : CheckRead(cache, acc, k) \in Acc
  BY CheckReadFacts DEF Iterates
<1>4. /\ step \in [Acc \X K -> Acc]
      /\ \A acc \in Acc, k \in K : step[<<acc, k>>] = CheckRead(cache, acc, k)
  BY <1>3
<1>5. ASSUME NEW s \in SUBSET DOMAIN reads, s # {}
      PROVE  reads[Max(s)] \in K /\ s \ {Max(s)} \in SUBSET DOMAIN reads
  BY <1>1, <1>5, LastOfSome
<1>6. /\ base \in Acc /\ base.flags = <<>> /\ base.checked_pairs = {}
  BY DEF LoopState
<1> HIDE DEF Acc, step, n, base
<1>7. PICK g \in [SUBSET DOMAIN reads -> Acc] : IsFold(g, step, base, reads)
  BY <1>4, <1>6, FoldExists
<1>8. \A s \in SUBSET DOMAIN reads :
         g[s] = IF s = {} THEN base ELSE CheckRead(cache, g[s \ {Max(s)}], reads[Max(s)])
  BY <1>4, <1>5, <1>7 DEF IsFold
<1>9. Eq(h)
  <2>1. Eq(g)
    BY <1>8
  <2> QED
    BY <2>1
<1> HIDE DEF h
<1>10. FoldsIn(h, Acc, step, base, reads)
  BY <1>4, <1>5, <1>9 DEF FoldsIn
<1> HIDE DEF Eq
<1>11. PICK r \in [0..n -> Acc] : Loops(r, step, base, reads, h[DOMAIN reads])
  BY <1>4, <1>6, <1>10, FoldRuns DEF n
<1> DEFINE Done == {i \in 0..n : Seen(cache, r[i], FirstOf(reads, i))}
<1>12. 0 \in Done
  <2>1. r[0] = base /\ 0 \in 0..n
    BY <1>1, <1>11 DEF Loops
  <2>2. FirstOf(reads, 0) = {}
    BY FirstOfFacts
  <2>3. Anomalies(cache, {}) = {} /\ Compared(cache, {}) = {}
    BY DEF Anomalies, Compared
  <2>4. ToSet(<<>>) = {} /\ Distinct(<<>>)
    BY DEF ToSet, Distinct
  <2>5. Seen(cache, base, {})
    BY <1>6, <2>3, <2>4 DEF Seen
  <2> QED
    BY <2>1, <2>2, <2>5
<1>13. \A i \in 1..n : i - 1 \in Done => i \in Done
  <2> SUFFICES ASSUME NEW i \in 1..n, i - 1 \in Done PROVE i \in Done
    OBVIOUS
  <2>1. Seen(cache, r[i - 1], FirstOf(reads, i - 1))
    OBVIOUS
  <2> HIDE DEF Done
  <2>2. i \in Nat /\ i > 0 /\ i \in 0..n /\ i - 1 \in 0..n /\ reads[i] \in K
    BY <1>1
  <2>3. r[i - 1] \in Acc /\ r[i] = CheckRead(cache, r[i - 1], reads[i])
    BY <1>4, <1>11, <2>2 DEF Loops, n
  <2>4. Iterates(cache, K, r[i - 1], reads[i], r[i])
    BY <2>2, <2>3, CheckReadFacts DEF Acc
  <2>5. FirstOf(reads, i) = FirstOf(reads, i - 1) \cup {reads[i]}
    BY <2>2, FirstOfFacts
  <2>6. reads[i] \notin FirstOf(reads, i - 1)
    <3> SUFFICES ASSUME NEW j \in 1..(i - 1), reads[j] = reads[i] PROVE FALSE
      BY DEF FirstOf
    <3>1. j \in DOMAIN reads /\ i \in DOMAIN reads /\ j # i
      BY <1>1, <2>2
    <3> QED
      BY <3>1 DEF Distinct
  <2>7. Seen(cache, r[i], FirstOf(reads, i - 1) \cup {reads[i]})
    BY <2>1, <2>4, <2>6, SeenStep, Zenon
  <2>8. Seen(cache, r[i], FirstOf(reads, i))
    BY <2>5, <2>7
  <2> QED
    BY <2>2, <2>8 DEF Done
<1>14. n \in Done
  <2> HIDE DEF Done
  <2>1. \A i \in 0..n : i \in Done
    BY <1>1, <1>12, <1>13, UpToN, Zenon
  <2> QED
    BY <1>1, <2>1
<1>15. h[DOMAIN reads] = r[n] /\ r[n] \in Acc
  BY <1>1, <1>11 DEF Loops, n
<1>16. FirstOf(reads, n) = ToSet(reads)
  BY <1>1 DEF FirstOf, ToSet
<1>17. r[n].flags \in Seq(OracleFlag(K))
  BY <1>15 DEF Acc, LoopState
<1>18. Seen(cache, r[n], ToSet(reads))
  BY <1>14, <1>16
<1> QED
  BY <1>2, <1>15, <1>17, <1>18 DEF Seen

LEMMA ReverseFacts ==
  ASSUME NEW K, NEW seq \in Seq(K)
  PROVE  /\ Reverse(seq) \in Seq(K) /\ ToSet(Reverse(seq)) = ToSet(seq)
         /\ Distinct(seq) => Distinct(Reverse(seq))
<1> DEFINE n == Len(seq)
           rev == Reverse(seq)
<1>1. n \in Nat /\ DOMAIN seq = 1..n /\ \A i \in 1..n : seq[i] \in K
  OBVIOUS
<1>2. rev = [i \in 1..n |-> seq[(n - i) + 1]]
  BY DEF Reverse
<1>3. \A i \in 1..n : (n - i) + 1 \in 1..n
  BY <1>1
<1>4. rev \in Seq(K)
  BY <1>1, <1>2, <1>3
<1>5. DOMAIN rev = 1..n /\ \A i \in 1..n : rev[i] = seq[(n - i) + 1]
  BY <1>2
<1> HIDE DEF n, rev
<1>6. \A i \in 1..n : seq[i] = rev[(n - i) + 1]
  <2> SUFFICES ASSUME NEW i \in 1..n PROVE seq[i] = rev[(n - i) + 1]
    OBVIOUS
  <2>1. (n - i) + 1 \in 1..n /\ (n - ((n - i) + 1)) + 1 = i
    BY <1>1
  <2> QED
    BY <1>5, <2>1
<1>7. ToSet(rev) = ToSet(seq)
  BY <1>1, <1>3, <1>5, <1>6 DEF ToSet
<1>8. ASSUME Distinct(seq), NEW i \in 1..n, NEW j \in 1..n, rev[i] = rev[j] PROVE i = j
  <2>1. (n - i) + 1 = (n - j) + 1
    BY <1>1, <1>3, <1>5, <1>8 DEF Distinct
  <2> QED
    BY <1>1, <2>1
<1> QED
  BY <1>4, <1>5, <1>7, <1>8 DEF Distinct, rev

\* The length of a sequence without repetitions is the number of its elements.
LEMMA LengthOfDistinct ==
  ASSUME NEW F, NEW seq \in Seq(F), Distinct(seq)
  PROVE  Cardinality(ToSet(seq)) = Len(seq)
<1> DEFINE n == Len(seq)
<1>1. n \in Nat /\ DOMAIN seq = 1..n /\ seq \in [1..n -> F]
  OBVIOUS
<1>2. ToSet(seq) = {seq[i] : i \in 1..n}
  BY <1>1 DEF ToSet
<1>3. seq \in Bijection(1..n, ToSet(seq))
  BY <1>1, <1>2 DEF Bijection, Injection, Surjection, Distinct, IsInjective
<1>4. ExistsBijection(1..n, ToSet(seq))
  BY <1>3 DEF ExistsBijection
<1>5. IsFiniteSet(1..n) /\ Cardinality(1..n) = n
  BY <1>1, FS_Interval
<1>6. Cardinality(ToSet(seq)) = Cardinality(1..n)
  BY <1>4, <1>5, FS_Bijection
<1> QED
  BY <1>5, <1>6
----------------------------------------------------------------------------
(* What the checker makes of the feeds.                                    *)

\* What a cached feed holds.
LEMMA ParsedPrices ==
  ASSUME NEW f \in FeedStates, NEW k \in DOMAIN f.accounts, NEW asset
  PROVE  /\ parse_switchboard_v2(f.accounts[k], asset) \notin OracleParseError =>
               /\ f.accounts[k].owner = "SWITCHBOARD_V2"
               /\ parse_switchboard_v2(f.accounts[k], asset).price \in Int
               /\ parse_switchboard_v2(f.accounts[k], asset).confidence \in Int
         /\ parse_pyth_price(f.accounts[k], asset) \notin OracleParseError =>
               /\ f.accounts[k].owner # "SWITCHBOARD_V2"
               /\ parse_pyth_price(f.accounts[k], asset).price \in Int
               /\ parse_pyth_price(f.accounts[k], asset).confidence \in Int
<1> DEFINE data == f.accounts[k]
<1>1. /\ data.header = "Aggregator" =>
            /\ data.owner = "SWITCHBOARD_V2"
            /\ \A d \in {data.result, data.std_deviation} :
                  d.mantissa \in Int /\ 10^(DECIMALS - d.scale) \in Nat
      /\ data.header = "Price" =>
            /\ data.owner # "SWITCHBOARD_V2"
            /\ data.price \in Int /\ data.conf \in Int
            /\ 10^(DECIMALS + data.expo) \in Nat
  BY FeedsAssumption
<1> HIDE DEF data
<1>2. \A x \in Int, y \in Nat : x * y \in Int
  OBVIOUS
<1>3. ASSUME parse_switchboard_v2(data, asset) \notin OracleParseError
      PROVE  /\ data.owner = "SWITCHBOARD_V2"
             /\ parse_switchboard_v2(data, asset).price \in Int
             /\ parse_switchboard_v2(data, asset).confidence \in Int
  <2>1. ~(data.len < SB_MIN_SIZE) /\ data.header = "Aggregator"
    BY <1>3 DEF parse_switchboard_v2, OracleParseError
  <2>2. switchboard_decimal(data.result) \in Int /\ switchboard_decimal(data.std_deviation) \in Int
    BY <1>1, <1>2, <2>1, Zenon DEF switchboard_decimal
  <2>3. parse_switchboard_v2(data, asset)
          = OraclePrice("Switchboard", switchboard_decimal(data.result),
                        switchboard_decimal(data.std_deviation), data.timestamp, asset)
    BY <2>1 DEF parse_switchboard_v2
  <2> QED
    BY <1>1, <2>1, <2>2, <2>3 DEF OraclePrice
<1>4. ASSUME parse_pyth_price(data, asset) \notin OracleParseError
      PROVE  /\ data.owner # "SWITCHBOARD_V2"
             /\ parse_pyth_price(data, asset).price \in Int
             /\ parse_pyth_price(data, asset).confidence \in Int
  <2>1. ~(data.len < PYTH_MIN_SIZE) /\ data.header = "Price"
    BY <1>4 DEF parse_pyth_price, OracleParseError
  <2>2. PythDecimal(data.price, data.expo) \in Int /\ PythDecimal(data.conf, data.expo) \in Int
    BY <1>1, <1>2, <2>1, Zenon DEF PythDecimal
  <2>3. parse_pyth_price(data, asset)
          = OraclePrice("Pyth", PythDecimal(data.price, data.expo),
                        PythDecimal(data.conf, data.expo), data.timestamp, asset)
    BY <2>1 DEF parse_pyth_price
  <2> QED
    BY <1>1, <2>1, <2>2, <2>3 DEF OraclePrice
<1> QED
  BY <1>3, <1>4 DEF data

LEMMA CacheTyped ==
  ASSUME NEW f \in FeedStates
  PROVE  PricesTyped(Populated(f.accounts, f.now))
<1> DEFINE cache == Populated(f.accounts, f.now)
           parse(k) == IF f.accounts[k].owner = "SWITCHBOARD_V2"
                       THEN parse_switchboard_v2(f.accounts[k], k)
                       ELSE parse_pyth_price(f.accounts[k], k)
<1>1. /\ DOMAIN cache.prices = {key \in DOMAIN f.accounts : parse(key) \notin OracleParseError}
      /\ \A k \in DOMAIN cache.prices : cache.prices[k] = parse(k)
  BY DEF Populated
<1>2. ASSUME NEW k \in DOMAIN f.accounts, parse(k) \notin OracleParseError
      PROVE  parse(k).price \in Int /\ parse(k).confidence \in Int
  BY <1>2, ParsedPrices, Zenon
<1> HIDE DEF cache, parse
<1>3. PricesTyped(cache)
  BY <1>1, <1>2 DEF PricesTyped
<1> QED
  BY <1>3 DEF cache

LEMMA ReportedOnce == SimTypes => AnomaliesReportedOnce
<1> SUFFICES ASSUME SimTypes, NEW f \in FeedStates
             PROVE  LET cache    == Populated(f.accounts, f.now)
                        flags    == OracleFlags(cache, ReadKeys)
                        backward == OracleFlags(cache, Reverse(ReadKeys))
                    IN  /\ \A i, j \in DOMAIN flags : flags[i] = flags[j] => i = j
                        /\ ToSet(backward) = ToSet(flags) /\ Len(backward) = Len(flags)
  BY DEF AnomaliesReportedOnce
<1> DEFINE cache == Populated(f.accounts, f.now)
           reads == ReadKeys
           back == Reverse(reads)
           flags == OracleFlags(cache, reads)
           backward == OracleFlags(cache, back)
           F == OracleFlag(KeySpace)
<1>1. reads \in Seq(KeySpace) /\ Distinct(reads)
  BY ReadKeysFacts DEF SimTypes, Distinct
<1>2. PricesTyped(cache)
  BY CacheTyped
<1> HIDE DEF cache, reads
<1>3. back \in Seq(KeySpace) /\ Distinct(back) /\ ToSet(back) = ToSet(reads)
  BY <1>1, ReverseFacts
<1> HIDE DEF back
<1>4. flags \in Seq(F) /\ Distinct(flags) /\ ToSet(flags) = Anomalies(cache, ToSet(reads))
  BY <1>1, <1>2, OracleFlagsFacts, Zenon
<1>5. /\ backward \in Seq(F) /\ Distinct(backward)
      /\ ToSet(backward) = Anomalies(cache, ToSet(back))
  BY <1>2, <1>3, OracleFlagsFacts, Zenon
<1> HIDE DEF flags, backward, F
<1>6. ToSet(backward) = ToSet(flags)
  BY <1>3, <1>4, <1>5
<1>7. Len(flags) = Cardinality(ToSet(flags)) /\ Len(backward) = Cardinality(ToSet(backward))
  BY <1>4, <1>5, LengthOfDistinct, Zenon
<1>8. Len(backward) = Len(flags)
  BY <1>6, <1>7
<1>9. \A i, j \in DOMAIN flags : flags[i] = flags[j] => i = j
  BY <1>4 DEF Distinct
<1> QED
  BY <1>6, <1>8, <1>9 DEF cache, reads, back, flags, backward

\* oracle_sanity.rs, check: the remembered pairs make the loop report each anomaly
\* once, and the same ones whatever the order of the reads, for any feeds and any
\* transaction.
THEOREM AnomaliesAreReportedOnce == Spec => []AnomaliesReportedOnce
<1>1. SimTypes => AnomaliesReportedOnce
  BY ReportedOnce
<1> QED
  BY <1>1, SimTypesHold, PTL

\* No oracle program is a feed.
LEMMA ProgramsAreNoFeeds ==
  ASSUME NEW asset \in DOMAIN default_mainnet
  PROVE  {default_mainnet[asset].switchboard, default_mainnet[asset].pyth}
            \cap OraclePrograms = {}
<1>1. DOMAIN PairedFeeds = {"SOL", "BTC", "ETH", "USDC", "BONK", "JTO", "PYTH"}
  BY DEF PairedFeeds
<1>2. CASE asset \in SharedFeeds
  <2>1. default_mainnet[asset] = [switchboard |-> asset, pyth |-> asset]
    BY <1>2 DEF default_mainnet
  <2>2. asset \notin OraclePrograms
    BY <1>2 DEF SharedFeeds, OraclePrograms
  <2> QED
    BY <2>1, <2>2
<1>3. CASE asset \notin SharedFeeds
  <2>1. asset \in DOMAIN PairedFeeds /\ default_mainnet[asset] = PairedFeeds[asset]
    BY <1>3 DEF default_mainnet
  <2>2. /\ PairedFeeds["SOL"] = [switchboard |-> "SOL_SB", pyth |-> "SOL_PYTH"]
        /\ PairedFeeds["BTC"] = [switchboard |-> "BTC_SB", pyth |-> "BTC_PYTH"]
        /\ PairedFeeds["ETH"] = [switchboard |-> "ETH_SB", pyth |-> "ETH_PYTH"]
        /\ PairedFeeds["USDC"] = [switchboard |-> "USDC_SB", pyth |-> "USDC_PYTH"]
        /\ PairedFeeds["BONK"] = [switchboard |-> "BONK_SB", pyth |-> "BONK_PYTH"]
        /\ PairedFeeds["JTO"] = [switchboard |-> "JTO_SB", pyth |-> "JTO_PYTH"]
        /\ PairedFeeds["PYTH"] = [switchboard |-> "PYTH_SB", pyth |-> "PYTH_PYTH"]
    BY DEF PairedFeeds
  <2>3. {PairedFeeds[asset].switchboard, PairedFeeds[asset].pyth} \cap OraclePrograms = {}
    BY <1>1, <2>1, <2>2 DEF OraclePrograms
  <2> QED
    BY <2>1, <2>3
<1> QED
  BY <1>2, <1>3

\* Feeds that contradict each other deviate, whichever of them is read.
LEMMA ContradictionDeviates ==
  ASSUME NEW f \in FeedStates, NEW asset \in DOMAIN default_mainnet,
         Contradict(f.accounts, asset),
         NEW key \in {default_mainnet[asset].switchboard, default_mainnet[asset].pyth}
  PROVE  \E cross \in cross_reference(key) : Deviates(Populated(f.accounts, f.now), key, cross)
<1> DEFINE cache == Populated(f.accounts, f.now)
           sb == default_mainnet[asset].switchboard
           py == default_mainnet[asset].pyth
           accounts == f.accounts
           p == parse_switchboard_v2(accounts[sb], asset)
           q == parse_pyth_price(accounts[py], asset)
           parse(k) == IF accounts[k].owner = "SWITCHBOARD_V2"
                       THEN parse_switchboard_v2(accounts[k], k)
                       ELSE parse_pyth_price(accounts[k], k)
<1>1. /\ {sb, py} \subseteq DOMAIN accounts
      /\ p \notin OracleParseError /\ q \notin OracleParseError
      /\ p.confidence + q.confidence > 0
      /\ \A sigma \in {p.confidence, q.confidence} :
            \/ p.price > q.price + sigma_threshold * sigma
            \/ q.price > p.price + sigma_threshold * sigma
  BY DEF Contradict
<1>2. /\ accounts[sb].owner = "SWITCHBOARD_V2" /\ p.price \in Int /\ p.confidence \in Int
      /\ accounts[py].owner # "SWITCHBOARD_V2" /\ q.price \in Int /\ q.confidence \in Int
  BY <1>1, ParsedPrices, Zenon
<1>3. /\ parse(sb) \notin OracleParseError
      /\ parse(sb).price = p.price /\ parse(sb).confidence = p.confidence
  <2>1. parse(sb) = parse_switchboard_v2(accounts[sb], sb)
    BY <1>2
  <2>2. ~(accounts[sb].len < SB_MIN_SIZE) /\ accounts[sb].header = "Aggregator"
    BY <1>1 DEF parse_switchboard_v2, OracleParseError
  <2> QED
    BY <2>1, <2>2 DEF parse_switchboard_v2, OraclePrice, OracleParseError
<1>4. /\ parse(py) \notin OracleParseError
      /\ parse(py).price = q.price /\ parse(py).confidence = q.confidence
  <2>1. parse(py) = parse_pyth_price(accounts[py], py)
    BY <1>2
  <2>2. ~(accounts[py].len < PYTH_MIN_SIZE) /\ accounts[py].header = "Price"
    BY <1>1 DEF parse_pyth_price, OracleParseError
  <2> QED
    BY <2>1, <2>2 DEF parse_pyth_price, OraclePrice, OracleParseError
<1>5. /\ DOMAIN cache.prices = {k \in DOMAIN accounts : parse(k) \notin OracleParseError}
      /\ \A k \in DOMAIN cache.prices : cache.prices[k] = parse(k)
  BY DEF Populated
<1>6. sb # py
  BY <1>2
<1>7. \E cross \in cross_reference(key) : {key, cross} = {sb, py} /\ key # cross
  <2>1. asset \in asset_for(key)
    BY DEF asset_for
  <2>2. (IF IsPythFeed(key, asset) THEN sb ELSE py) \in cross_reference(key)
    BY <2>1 DEF cross_reference
  <2>3. IsPythFeed(key, asset) <=> key = py
    BY DEF IsPythFeed
  <2> HIDE DEF sb, py
  <2>4. key = sb \/ key = py
    BY DEF sb, py
  <2> QED
    BY <1>6, <2>2, <2>3, <2>4
<1> HIDE DEF cache, sb, py, accounts, p, q, parse
<1>8. sb \in DOMAIN cache.prices /\ py \in DOMAIN cache.prices
  BY <1>1, <1>3, <1>4, <1>5
<1>9. Deviates(cache, sb, py)
  <2>1. /\ cache.prices[sb].price = p.price /\ cache.prices[sb].confidence = p.confidence
        /\ cache.prices[py].price = q.price /\ cache.prices[py].confidence = q.confidence
    BY <1>3, <1>4, <1>5, <1>8
  <2> DEFINE pc == p.confidence
             qc == q.confidence
             pp == p.price
             qp == q.price
             max == IF pc > qc THEN pc ELSE qc
  <2>2. pc \in Int /\ qc \in Int /\ pp \in Int /\ qp \in Int /\ pc + qc > 0
    BY <1>1, <1>2
  <2>3. max \in {pc, qc} /\ max \in Int /\ max > 0
    BY <2>2
  <2>4. pp > qp + 3 * max \/ qp > pp + 3 * max
    BY <1>1, <2>3 DEF sigma_threshold
  <2> HIDE DEF pc, qc, pp, qp
  <2>5. Magnitude(pp - qp) > 3 * max
    BY <2>2, <2>3, <2>4 DEF Magnitude
  <2> QED
    BY <1>8, <2>1, <2>3, <2>5 DEF Deviates, sigma_threshold, pc, qc, pp, qp
<1>10. Deviates(cache, py, sb)
  <2>1. PricesTyped(cache)
    BY CacheTyped DEF cache
  <2> QED
    BY <1>9, <2>1, DeviatesBothWays
<1>11. PICK cross \in cross_reference(key) : {key, cross} = {sb, py} /\ key # cross
  BY <1>7
<1>12. Deviates(cache, key, cross)
  BY <1>9, <1>10, <1>11
<1> QED
  BY <1>11, <1>12 DEF cache

\* A deviation among the flags is critical.
LEMMA DeviationIsCritical ==
  ASSUME NEW cache, NEW reads, NEW K, OracleFlags(cache, reads) \in Seq(OracleFlag(K)),
         NEW flag \in ToSet(OracleFlags(cache, reads)),
         flag.code = "ORACLE_DEVIATION_3_SIGMA"
  PROVE  oracle_check(cache, reads).severity = "Critical"
<1> DEFINE flags == OracleFlags(cache, reads)
           levels == {oracle_flag_severity(flags[i].code) : i \in DOMAIN flags}
<1>1. oracle_check(cache, reads).severity
         = IF flags = <<>> THEN "None"
           ELSE IF "Critical" \in levels THEN "Critical"
           ELSE IF "High" \in levels THEN "High" ELSE "Medium"
  BY DEF oracle_check
<1>2. PICK i \in DOMAIN flags : flags[i] = flag
  BY DEF ToSet
<1>3. oracle_flag_severity(flag.code) = "Critical"
  BY DEF oracle_flag_severity
<1>4. "Critical" \in levels
  BY <1>2, <1>3
<1>5. flags # <<>>
  <2> HIDE DEF flags
  <2> QED
    BY <1>2
<1> HIDE DEF flags, levels
<1> QED
  BY <1>1, <1>4, <1>5

LEMMA ContradictionBlocks == SimTypes => ContradictedFeedIsBlocked
<1> SUFFICES ASSUME SimTypes, Simulated, NEW c \in OracleCalls \cap ToSet(tx), NEW f \in FeedStates,
                    NEW k \in ToSet(c.accounts), NEW asset \in asset_for(k),
                    Contradict(f.accounts, asset), NEW intent \in Intents
             PROVE  TraceVerdict(intent, Populated(f.accounts, f.now), ReadKeys) = "BLOCK"
  BY DEF ContradictedFeedIsBlocked
<1> DEFINE cache == Populated(f.accounts, f.now)
           flag == [code |-> "ORACLE_DEVIATION_3_SIGMA", subject |-> {k} \cup cross_reference(k)]
<1>1. /\ asset \in DOMAIN default_mainnet
      /\ k \in {default_mainnet[asset].switchboard, default_mainnet[asset].pyth}
  BY DEF asset_for
<1>2. k \in ToSet(ReadKeys)
  <2>1. k \notin OraclePrograms
    BY <1>1, ProgramsAreNoFeeds
  <2>2. OracleCallsAreRead
    BY CoverInvariant
  <2> QED
    BY <2>1, <2>2 DEF OracleCallsAreRead
<1>3. \E cross \in cross_reference(k) : Deviates(cache, k, cross)
  BY <1>1, ContradictionDeviates, Zenon
<1>4. PricesTyped(cache) /\ ReadKeys \in Seq(KeySpace) /\ Distinct(ReadKeys)
  BY CacheTyped, ReadKeysFacts DEF SimTypes, Distinct
<1> HIDE DEF cache
<1>5. /\ OracleFlags(cache, ReadKeys) \in Seq(OracleFlag(KeySpace))
      /\ ToSet(OracleFlags(cache, ReadKeys)) = Anomalies(cache, ToSet(ReadKeys))
  BY <1>4, OracleFlagsFacts, Zenon
<1>6. flag \in PairFlags(cache, k)
  BY <1>3 DEF PairFlags, MaybeFlag
<1>7. flag \in ToSet(OracleFlags(cache, ReadKeys)) /\ flag.code = "ORACLE_DEVIATION_3_SIGMA"
  BY <1>2, <1>5, <1>6 DEF Anomalies
<1> HIDE DEF flag
<1>8. oracle_check(cache, ReadKeys).severity = "Critical"
  BY <1>5, <1>7, DeviationIsCritical, Zenon
<1> DEFINE statuses == <<Authority(intent).severity, Approval.severity,
                         intent_check(SimulationTrace, intent).severity,
                         oracle_check(cache, ReadKeys).severity>>
           reported == {statuses[i] : i \in DOMAIN statuses}
<1>9. 4 \in DOMAIN statuses /\ statuses[4] = "Critical"
  BY <1>8
<1>10. TraceVerdict(intent, cache, ReadKeys)
          = score_to_verdict(compute_safety_score(statuses), reported)
  BY DEF TraceVerdict
<1> HIDE DEF statuses
<1>11. "Critical" \in reported
  BY <1>9
<1> HIDE DEF reported
<1> QED
  BY <1>10, <1>11 DEF score_to_verdict, cache

\* oracle_sanity.rs and scorer.rs: a signed read of a feed that its pair contradicts
\* is blocked, for any feeds, intents, transaction and calls, and whether or not the
\* simulation succeeded.
THEOREM ContradictionIsBlocked == Spec => []ContradictedFeedIsBlocked
<1>1. SimTypes => ContradictedFeedIsBlocked
  BY ContradictionBlocks
<1> QED
  BY <1>1, SimTypesHold, PTL

\* oracle_sanity.rs, check: two traces that read the same feeds, in whatever order,
\* get the same answer from the checker, for any prices in the cache.
THEOREM OracleCheckIgnoresOrder ==
  ASSUME NEW cache, PricesTyped(cache), NEW K, NEW reads \in Seq(K), NEW other \in Seq(K),
         Distinct(reads), Distinct(other), ToSet(reads) = ToSet(other)
  PROVE  oracle_check(cache, reads) = oracle_check(cache, other)
<1> DEFINE flags == OracleFlags(cache, reads)
           others == OracleFlags(cache, other)
           F == OracleFlag(K)
           LevelsOf(s) == {oracle_flag_severity(s[i].code) : i \in DOMAIN s}
<1>1. flags \in Seq(F) /\ ToSet(flags) = Anomalies(cache, ToSet(reads))
  BY OracleFlagsFacts, Zenon
<1>2. others \in Seq(F) /\ ToSet(others) = Anomalies(cache, ToSet(other))
  BY OracleFlagsFacts, Zenon
<1> HIDE DEF flags, others, F
<1>3. ToSet(flags) = ToSet(others)
  BY <1>1, <1>2
<1>4. ASSUME NEW s \in Seq(F)
      PROVE  /\ LevelsOf(s) = {oracle_flag_severity(f.code) : f \in ToSet(s)}
             /\ s = <<>> <=> ToSet(s) = {}
  <2>1. LevelsOf(s) = {oracle_flag_severity(f.code) : f \in ToSet(s)}
    BY DEF ToSet
  <2>2. DOMAIN s = 1..Len(s) /\ Len(s) \in Nat
    OBVIOUS
  <2>3. ASSUME s # <<>> PROVE s[1] \in ToSet(s)
    <3>1. 1 \in DOMAIN s
      BY <2>2, <2>3
    <3> QED
      BY <3>1 DEF ToSet
  <2>4. s = <<>> => ToSet(s) = {}
    BY DEF ToSet
  <2> QED
    BY <2>1, <2>3, <2>4
<1>5. LevelsOf(flags) = LevelsOf(others) /\ (flags = <<>> <=> others = <<>>)
  <2>1. LevelsOf(flags) = LevelsOf(others)
    BY <1>1, <1>2, <1>3, <1>4
  <2> HIDE DEF LevelsOf
  <2> QED
    BY <1>1, <1>2, <1>3, <1>4, <2>1
<1> DEFINE Answer(s, levels) ==
             [passed   |-> s = <<>>,
              severity |-> IF s = <<>> THEN "None"
                           ELSE IF "Critical" \in levels THEN "Critical"
                           ELSE IF "High" \in levels THEN "High" ELSE "Medium"]
<1>6. /\ oracle_check(cache, reads) = Answer(flags, LevelsOf(flags))
      /\ oracle_check(cache, other) = Answer(others, LevelsOf(others))
  BY DEF oracle_check, flags, others
<1> HIDE DEF LevelsOf
<1>7. Answer(flags, LevelsOf(flags)) = Answer(others, LevelsOf(others))
  BY <1>5
<1> QED
  BY <1>6, <1>7
=============================================================================
