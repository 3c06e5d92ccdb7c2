------------------------------ MODULE Forecast ------------------------------
(***************************************************************************)
(* When a case will be done and how likely it is to slip: app/ai_layer/    *)
(* predict.py.  Durations are in tenths of a day, ratios in hundredths and *)
(* the score in thousandths, as the code rounds them.                      *)
(***************************************************************************)
EXTENDS Rules, Rounding, FiniteSetsExt

MIN_OBSERVATIONS == 12

\* How long a case stayed at a stage, each time it left it forward.
StageDurations(history, s) ==
    LET days(i) == history[i + 1].on - history[i].on IN
    [i \in {j \in 1..Len(history) - 1 :
                history[j].to = s /\ history[j + 1].to > s /\ days(j) >= 0} |-> days(i)]

\* The durations other cases showed and those of this one.
Samples(others, own) ==
    [k \in ({"others"} \X DOMAIN others) \cup ({"own"} \X DOMAIN own) |->
        IF k[1] = "own" THEN own[k[2]] ELSE others[k[2]]]

Count(v) == Cardinality(DOMAIN v)

\* The k-th smallest value.
Nth(v, k) ==
    CHOOSE x \in {v[i] : i \in DOMAIN v} :
        /\ Cardinality({i \in DOMAIN v : v[i] < x}) < k
        /\ Cardinality({i \in DOMAIN v : v[i] <= x}) >= k

TwiceMedian(v) == Nth(v, (Count(v) + 1) \div 2) + Nth(v, (Count(v) + 2) \div 2)

Percentile75(v) == Nth(v, Round(3 * (Count(v) - 1), 4) + 1)

\* stage_model: the target, the median, or a blend while there is little.
StageModel(samples, target) ==
    LET n == Count(samples)
        expected == IF n < MIN_OBSERVATIONS
                    THEN Round(10 * (TwiceMedian(samples) * n
                                     + 2 * target * (MIN_OBSERVATIONS - n)),
                               2 * MIN_OBSERVATIONS)
                    ELSE 5 * TwiceMedian(samples)
    IN  IF n = 0
        THEN [expected |-> 10 * target, pessimistic |-> 15 * target, overrun |-> 100]
        ELSE [expected |-> expected,
              pessimistic |-> Max({10 * Percentile75(samples), expected}),
              overrun |-> Round(100 * TwiceMedian(samples), 2 * target)]

DaysInStage(c, asOf) == Max({0, asOf - c.changed})

\* Days to go by what the model gives for each stage: what is left of this one,
\* and all of those after it.
DaysToGo(c, days, asOf) ==
    LET from[s \in 1..MONITORING + 1] ==
            IF s > MONITORING THEN 0 ELSE days[s] + from[s + 1]
    IN  Round(Max({0, days[c.stage] - 10 * DaysInStage(c, asOf)}) + from[c.stage + 1], 10)

\* _case_pressure
Pressure(c, required) ==
    [open_objections |-> Cardinality({o \in DOMAIN c.objections :
                                         c.objections[o].status \in OPEN_STATUSES}),
     missing_documents |-> Cardinality(MissingDocuments(c, required)),
     unpaid_awards |-> IF c.award.status \in {"AWARDED", "ASSESSED"} /\ c.award.pending
                       THEN 1 ELSE 0]

\* WEIGHTS and the points past which a signal counts no more.
RiskScore(c, model, required, standardDays, asOf) ==
    LET standard == standardDays[c.stage]
        pressure == Pressure(c, required)
        pressing == 3 * Min({100, Max({0, model[c.stage].overrun - 100})})
                    + 100 * Min({3, pressure.open_objections})
                    + 50 * Min({3, pressure.missing_documents})
                    + 45 * Min({5, pressure.unpaid_awards})
    IN  Round(1000 * (525 * Min({standard, DaysInStage(c, asOf)}) + standard * pressing),
              1500 * standard)

\* RISK_BANDS: LOW, MODERATE, ELEVATED, SEVERE.
RiskBand(score) == Cardinality({t \in {250, 500, 750} : t <= score})

\* forecast_case, with the durations other cases showed at every stage.
ForecastCase(c, others, required, standardDays, asOf) ==
    LET model == [s \in Stage |-> StageModel(Samples(others, StageDurations(c.history, s)),
                                             standardDays[s])]
        score == RiskScore(c, model, required, standardDays, asOf)
    IN  [projected |-> asOf + DaysToGo(c, [s \in Stage |-> model[s].expected], asOf),
         pessimistic |-> asOf + DaysToGo(c, [s \in Stage |-> model[s].pessimistic], asOf),
         score |-> score, band |-> RiskBand(score)]
=============================================================================
