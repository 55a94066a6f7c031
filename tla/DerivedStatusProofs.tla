------------------------ MODULE DerivedStatusProofs ------------------------
(***************************************************************************)
(* What TLAPS proves about compute_derived_status for all voltages.        *)
(***************************************************************************)
EXTENDS DerivedStatus, TLAPS

Reading(h) == DOMAIN h \subseteq Fields /\ \A f \in DOMAIN h : h[f] \in Int \cup {NaN}

LEMMA VoltsType == ASSUME NEW h, Reading(h), NEW f PROVE Volts(h, f) \in Int \cup {NaN}
BY DEF Reading, Volts

\* No two of the conditions that decide the status hold together.
LEMMA Exclusive ==
    ASSUME NEW h, Reading(h)
    PROVE  /\ outputs_energized(h) => ~all_zero(h) /\ ~outputs_de_energized(h)
           /\ has_input(h) => ~all_zero(h)
<1>1. \A f \in Fields : Volts(h, f) \in Int \cup {NaN}
  BY VoltsType
<1>2. outputs_energized(h) => AtLeast(Volts(h, "ur"), 60)
  BY DEF outputs_energized, Outputs
<1>3. outputs_de_energized(h) => Below(Volts(h, "ur"), 40)
  BY DEF outputs_de_energized, Outputs
<1>4. all_zero(h) => \A f \in Fields : AtMost(Volts(h, f), 1)
  BY DEF all_zero
<1>5. "ur" \in Fields /\ Inputs \subseteq Fields
  BY DEF Fields, Outputs
<1> QED
  BY <1>1, <1>2, <1>3, <1>4, <1>5 DEF has_input, Number, Above, AtLeast, Below, AtMost

\* OPEN is derived exactly for readings with an input above 4 kV and all outputs
\* below, CLOSED at least for those with all outputs at 6 kV or more.
LEMMA OpenExactly ==
    ASSUME NEW h, Reading(h)
    PROVE  /\ compute_derived_status(h) = "OPEN"
                 <=> has_input(h) /\ outputs_de_energized(h)
           /\ outputs_energized(h) => compute_derived_status(h) = "CLOSED"
<1>1. CASE outputs_energized(h)
  BY <1>1, Exclusive DEF compute_derived_status
<1>2. CASE has_input(h) /\ outputs_de_energized(h)
  BY <1>2, Exclusive DEF compute_derived_status
<1>3. CASE ~outputs_energized(h) /\ ~(has_input(h) /\ outputs_de_energized(h))
  BY <1>3 DEF compute_derived_status
<1> QED
  BY <1>1, <1>2, <1>3

LEMMA WithoutReading ==
    ASSUME NEW h, Reading(h), NEW f
    PROVE  /\ Reading(Without(h, f))
           /\ \A g \in Fields : g # f => Volts(Without(h, f), g) = Volts(h, g)
           /\ Volts(Without(h, f), f) = 0
BY DEF Reading, Without, Volts

\* With no input above 4 kV there is no phase whose voltages could be apart.
LEMMA NothingToCompare ==
    ASSUME NEW h, Reading(h), ~has_input(h)
    PROVE  voltages_match(h)
<1> SUFFICES ASSUME NEW i \in Inputs \cap DOMAIN h, ~AtMost(h[i], 40)
             PROVE  ~Apart(h[i], h[Other[i]])
  BY DEF voltages_match
<1>1. Volts(h, i) = h[i] /\ h[i] \in Int \cup {NaN}
  BY DEF Volts, Reading
<1>2. ~Above(h[i], 40)
  BY <1>1 DEF has_input
<1>3. ~Number(h[i])
  BY <1>1, <1>2 DEF Above, AtMost, Number
<1> QED
  BY <1>3 DEF Apart

\* Without a point, an input is alive if it was and is another one, and an output is
\* below 4 kV if it was or is the one that is lost.
LEMMA OneLoss ==
    ASSUME NEW h, Reading(h), NEW f \in Fields
    PROVE  LET w == Without(h, f)
           IN  /\ LiveInputs(w) = LiveInputs(h) \ {f}
               /\ outputs_de_energized(w) <=> \A o \in Outputs \ {f} : Below(Volts(h, o), 40)
               /\ all_zero(w) <=> \A g \in Fields \ {f} : AtMost(Volts(h, g), 1)
<1> DEFINE w == Without(h, f)
<1>1. (\A g \in Fields : g # f => Volts(w, g) = Volts(h, g)) /\ Volts(w, f) = 0
  BY WithoutReading
<1> HIDE DEF w
<1>2. Below(Volts(w, f), 40) /\ AtMost(Volts(w, f), 1) /\ ~Above(Volts(w, f), 40)
  BY <1>1, LevelsAssumption DEF Below, AtMost, Above, Number
<1>3. LiveInputs(w) = LiveInputs(h) \ {f}
  BY <1>1, <1>2 DEF LiveInputs, Fields
<1>4. outputs_de_energized(w) <=> \A o \in Outputs \ {f} : Below(Volts(h, o), 40)
  BY <1>1, <1>2 DEF outputs_de_energized, Fields
<1>5. all_zero(w) <=> \A g \in Fields \ {f} : AtMost(Volts(h, g), 1)
  BY <1>1, <1>2 DEF all_zero
<1> QED
  BY <1>3, <1>4, <1>5 DEF w

LEMMA LiveIsInput == ASSUME NEW h PROVE has_input(h) <=> LiveInputs(h) # {}
BY DEF has_input, LiveInputs

\* An OPEN reading keeps its outputs below 4 kV whatever it loses; it stays OPEN as
\* long as an input is left, and falls through to the match of voltages if not.
LEMMA OpenAfterLoss ==
    ASSUME NEW h, Reading(h), NEW f \in Fields, compute_derived_status(h) = "OPEN"
    PROVE  LET after == compute_derived_status(Without(h, f))
           IN  /\ LiveInputs(h) # {f} => after = "OPEN"
               /\ LiveInputs(h) = {f} =>
                     after = IF \A g \in Fields \ {f} : AtMost(Volts(h, g), 1)
                             THEN "ERROR" ELSE "CLOSED"
<1> DEFINE w == Without(h, f)
<1>1. Reading(w)
  BY WithoutReading
<1>2. /\ LiveInputs(w) = LiveInputs(h) \ {f}
      /\ outputs_de_energized(w) <=> \A o \in Outputs \ {f} : Below(Volts(h, o), 40)
      /\ all_zero(w) <=> \A g \in Fields \ {f} : AtMost(Volts(h, g), 1)
  BY OneLoss
<1> HIDE DEF w
<1>3. LiveInputs(h) # {} /\ outputs_de_energized(h)
  BY OpenExactly, LiveIsInput
<1>4. outputs_de_energized(w)
  BY <1>2, <1>3 DEF outputs_de_energized
<1>5. ASSUME LiveInputs(h) # {f} PROVE compute_derived_status(w) = "OPEN"
  <2>1. has_input(w)
    BY <1>2, <1>3, <1>5, LiveIsInput
  <2> QED
    BY <1>1, <1>4, <2>1, OpenExactly
<1>6. ASSUME LiveInputs(h) = {f}
      PROVE  compute_derived_status(w) = IF all_zero(w) THEN "ERROR" ELSE "CLOSED"
  <2>1. ~has_input(w)
    BY <1>2, <1>6, LiveIsInput
  <2>2. voltages_match(w) /\ ~outputs_energized(w)
    BY <1>1, <1>4, <2>1, NothingToCompare, Exclusive
  <2> QED
    BY <2>1, <2>2 DEF compute_derived_status
<1> QED
  BY <1>2, <1>5, <1>6 DEF w

\* A reading that is not OPEN becomes so if it loses the one output that was not
\* below 4 kV, and by no other loss.
LEMMA ClosedAfterLoss ==
    ASSUME NEW h, Reading(h), NEW f \in Fields, compute_derived_status(h) = "CLOSED"
    PROVE  compute_derived_status(Without(h, f)) = "OPEN" <=>
               /\ LiveInputs(h) # {}
               /\ f \in Outputs
               /\ \A o \in Outputs \ {f} : Below(Volts(h, o), 40)
<1> DEFINE w == Without(h, f)
<1>1. Reading(w)
  BY WithoutReading
<1>2. /\ LiveInputs(w) = LiveInputs(h) \ {f}
      /\ outputs_de_energized(w) <=> \A o \in Outputs \ {f} : Below(Volts(h, o), 40)
  BY OneLoss
<1> HIDE DEF w
<1>3. compute_derived_status(w) = "OPEN" <=> LiveInputs(w) # {} /\ outputs_de_energized(w)
  BY <1>1, OpenExactly, LiveIsInput
<1>4. LiveInputs(h) = {} \/ ~outputs_de_energized(h)
  BY OpenExactly, LiveIsInput
<1>5. CASE f \in Outputs
  <2>1. f \notin LiveInputs(h)
    BY <1>5 DEF LiveInputs, Inputs, Outputs
  <2> QED
    BY <1>2, <1>3, <1>5, <2>1 DEF w
<1>6. CASE f \notin Outputs
  <2>1. outputs_de_energized(w) => outputs_de_energized(h)
    BY <1>2, <1>6 DEF outputs_de_energized
  <2> QED
    BY <1>2, <1>3, <1>4, <1>6, <2>1 DEF w
<1> QED
  BY <1>5, <1>6

-----------------------------------------------------------------------------
DerivedInv ==
    /\ Reading(hot)
    /\ next \in Nat \ {0}
    /\ status # "none" => next > 6 /\ status = compute_derived_status(hot)

LEMMA DerivedKept == DerivedInv /\ [Next]_vars => DerivedInv'
<1> SUFFICES ASSUME DerivedInv, [Next]_vars PROVE DerivedInv'
  OBVIOUS
<1>0. Len(Points) = 6 /\ \A k \in 1..6 : Points[k] \in Fields
  BY DEF Points, Fields, Inputs, Outputs
<1>1. CASE Extract
  <2>1. next \in Nat /\ next <= 6 /\ status = "none" /\ status' = status /\ next' = next + 1
    BY <1>0, <1>1 DEF Extract, DerivedInv
  <2>2. Reading(hot)'
    <3>1. CASE UNCHANGED hot
      BY <3>1 DEF DerivedInv, Reading
    <3>2. ASSUME NEW v \in Levels \cup {NaN},
                 hot' = [f \in DOMAIN hot \cup {Points[next]} |->
                            IF f = Points[next] THEN v ELSE hot[f]]
          PROVE  Reading(hot)'
      <4>1. v \in Int \cup {NaN}
        BY LevelsAssumption
      <4>2. next = 0 \/ Points[next] \in Fields
        BY <1>0, <2>1
      <4>3. next # 0
        BY DEF DerivedInv
      <4> QED
        BY <3>2, <4>1, <4>2, <4>3 DEF DerivedInv, Reading
    <3> QED
      BY <1>1, <3>1, <3>2 DEF Extract
  <2> QED
    BY <2>1, <2>2 DEF DerivedInv
<1>2. CASE Derive
  BY <1>0, <1>2 DEF Derive, DerivedInv
<1>3. CASE UNCHANGED vars
  BY <1>3 DEF vars, DerivedInv
<1> QED
  BY <1>1, <1>2, <1>3 DEF Next

LEMMA DerivedInvariant == Spec => []DerivedInv
<1>1. Init => DerivedInv
  BY DEF Init, DerivedInv, Reading
<1> QED
  BY <1>1, DerivedKept, PTL DEF Spec

\* For any voltages: OPEN and CLOSED are what the docstring says wherever it is
\* clear (rwk35.py:589-633).
THEOREM StatusCorrect == Spec => []DocumentedWhenClear
<1>1. DerivedInv => DocumentedWhenClear
  BY OpenExactly, Exclusive DEF DerivedInv, DocumentedWhenClear, Documented,
     outputs_energized, outputs_de_energized, has_input
<1> QED
  BY <1>1, DerivedInvariant, PTL

\* For any voltages, numbers or not: what one point that drops out makes of OPEN and
\* of CLOSED, and that nothing else turns one into the other (rwk35.py:555-633).
THEOREM LossEffect == Spec => []EffectOfOneLoss
<1>1. DerivedInv => EffectOfOneLoss
  <2> SUFFICES ASSUME DerivedInv, NEW f \in Fields
               PROVE  LET after == compute_derived_status(Without(hot, f))
                      IN  /\ status = "OPEN" /\ LiveInputs(hot) # {f} => after = "OPEN"
                          /\ status = "OPEN" /\ LiveInputs(hot) = {f} =>
                                after = IF \A g \in Fields \ {f} : AtMost(Volts(hot, g), 1)
                                        THEN "ERROR" ELSE "CLOSED"
                          /\ status = "CLOSED" =>
                                (after = "OPEN" <=>
                                    /\ LiveInputs(hot) # {}
                                    /\ f \in Outputs
                                    /\ \A o \in Outputs \ {f} : Below(Volts(hot, o), 40))
    BY DEF EffectOfOneLoss
  <2>1. Reading(hot) /\ (status # "none" => status = compute_derived_status(hot))
    BY DEF DerivedInv
  <2>2. CASE status = "OPEN"
    BY <2>1, <2>2, OpenAfterLoss
  <2>3. CASE status = "CLOSED"
    BY <2>1, <2>3, ClosedAfterLoss
  <2> QED
    BY <2>2, <2>3
<1> QED
  BY <1>1, DerivedInvariant, PTL
=============================================================================
