----------------------------- MODULE MC_Billing -----------------------------
EXTENDS Billing

CONSTANTS ann, bea, sub1, p1, p2

MCSalons == {ann, bea}
MCPlans == {"monthly", "yearly"}
MCDays == [p \in MCPlans |-> IF p = "yearly" THEN 2 ELSE 1]
MCSalonOf == [b \in {sub1} |-> ann]
MCPlanOf == [b \in {sub1} |-> "yearly"]
MCSubOf == [p \in {p1, p2} |-> sub1]
Event(kind, pay, notes) ==
  [kind |-> kind, sub |-> sub1, pay |-> pay, notes |-> notes, nr |-> 0]
Verify(pay, n) ==
  [kind |-> "verify", sub |-> sub1, pay |-> pay, notes |-> FALSE, nr |-> n]
Claim(who, code, via, n) == [who |-> who, code |-> code, via |-> via, nr |-> n]

\* A payment reported by an event that is redelivered and by two deliveries of
\* the verify request, the next one recorded by an administrator or declined,
\* the subscription's end, and two claims of one salon by the two paths.
GrantEvents == {Event("captured", p1, TRUE), Event("record", p2, FALSE),
                Event("failed", Nothing, TRUE), Event("cancelled", Nothing, TRUE)}
GrantVerifies == {Verify(p1, 1), Verify(p1, 2)}
GrantClaims == {Claim(ann, bea, "request", 1), Claim(ann, bea, "callable", 2)}

\* Two kinds of runs.  In the first a code is claimed, days pass and the next
\* payment comes; in the second a delivery is doubled, fails or is stopped, a
\* charge is declined or the subscription ends.
Rewarding ==
  /\ faults = 0 /\ deaths = 0 /\ declined = {} /\ rzp[sub1] # "cancelled"
  /\ job[Verify(p1, 2)] = NoJob
Failing ==
  /\ now = 0 /\ published = {} /\ faults + deaths <= 1
  /\ captured \cup declined \subseteq {p1}
OneKind == Rewarding \/ Failing

\* One payment reported once by an event and once by the app.
LateSubOf == [p \in {p1} |-> sub1]
LateEvents == {Event("captured", p1, TRUE)}
LateVerifies == {Verify(p1, 1)}
=============================================================================
