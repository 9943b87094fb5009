------------------------------ MODULE Firewall ------------------------------
(***************************************************************************)
(* The RST DROP rule of utils/packet_input.py: InputPacketInfo as the        *)
(* context manager of main (tracevis.py), over the OUTPUT chain it shares    *)
(* with the operator and with other processes.  Every call of iptables is a  *)
(* step and may fail; copies of the rule cannot be told apart.               *)
(***************************************************************************)
EXTENDS Integers

CONSTANTS
    Wanted,         \* values of add_firewall_drop to consider
    OperatorRules   \* how many copies of the rule the operator may have set

ASSUME FirewallAssumption == Wanted \subseteq BOOLEAN /\ OperatorRules \subseteq Nat

VARIABLES
    wanted,     \* _add_firewall_rule
    operator,   \* copies of the rule set by the operator, who leaves them there
    rules,      \* copies of the rule in the chain
    other,      \* another process: before, while or after its rule is in the chain
    block,      \* where the with statement is
    warned      \* the operator was told to look for a leftover rule

fwVars == <<wanted, operator, rules, other, block, warned>>

FirewallInit ==
    /\ wanted \in Wanted
    /\ operator \in OperatorRules /\ rules = operator
    /\ other = "before"
    /\ block = "enter" /\ warned = FALSE

\* iptables -C, which an error of iptables turns into "not there".
Found == rules > 0

Goto(place) == block' = place /\ UNCHANGED <<wanted, operator, other>>

SkipRule ==
    /\ block = "enter" /\ ~wanted
    /\ Goto("left") /\ UNCHANGED <<rules, warned>>

AddRule ==
    /\ block = "enter" /\ wanted
    /\ \/ rules' = rules + 1 /\ Goto("verify add")
       \/ rules' = rules /\ Goto("raised")
    /\ UNCHANGED warned

\* Mutant: __exit__ is trusted to remove a rule that __enter__ could not verify.
VerifyAddOnly ==
    /\ block = "verify add"
    /\ (Found /\ Goto("exit")) \/ Goto("raised")
    /\ UNCHANGED <<rules, warned>>

VerifyAdd ==
    /\ block = "verify add"
    /\ (Found /\ Goto("exit")) \/ Goto("take back")
    /\ UNCHANGED <<rules, warned>>

TakeBack ==
    /\ block = "take back"
    /\ Goto("raised")
    /\ \/ rules > 0 /\ rules' = rules - 1 /\ UNCHANGED warned
       \/ warned' = TRUE /\ UNCHANGED rules

\* Mutant: removes until the check no longer finds the rule.
RemoveEveryRule ==
    /\ block = "exit"
    /\ \/ rules > 0 /\ rules' = 0 /\ Goto("verify removed") /\ UNCHANGED warned
       \/ warned' = TRUE /\ Goto("raised") /\ UNCHANGED rules

\* main's with block only unpacks the packets: __exit__ runs at once.
RemoveRule ==
    /\ block = "exit"
    /\ \/ rules > 0 /\ rules' = rules - 1 /\ Goto("verify removed") /\ UNCHANGED warned
       \/ warned' = TRUE /\ Goto("raised") /\ UNCHANGED rules

VerifyRemoved ==
    /\ block = "verify removed"
    /\ \/ Found /\ warned' = TRUE /\ Goto("raised")
       \/ Goto("left") /\ UNCHANGED warned
    /\ UNCHANGED rules

\* A tracevis or an operator next to this one.
OtherAdds ==
    /\ other = "before" /\ other' = "in"
    /\ rules' = rules + 1
    /\ UNCHANGED <<wanted, operator, block, warned>>

OtherRemoves ==
    /\ other = "in" /\ rules > 0 /\ other' = "after"
    /\ rules' = rules - 1
    /\ UNCHANGED <<wanted, operator, block, warned>>

Block == SkipRule \/ AddRule \/ VerifyAdd \/ TakeBack \/ RemoveRule \/ VerifyRemoved
Others == OtherAdds \/ OtherRemoves

-----------------------------------------------------------------------------
(* Properties *)

FirewallTypeOK ==
    /\ wanted \in Wanted /\ operator \in OperatorRules
    /\ rules \in Nat
    /\ other \in {"before", "in", "after"}
    /\ block \in {"enter", "verify add", "take back", "exit", "verify removed", "left", "raised"}
    /\ warned \in BOOLEAN

OthersRules == IF other = "in" THEN 1 ELSE 0

\* Once main has left the with block, normally or not, the chain is as the
\* operator and the other process have made it, or the message said where to
\* look for what is left.
ChainIsRestored ==
    (block \in {"left", "raised"} /\ ~warned) => rules = operator + OthersRules
=============================================================================
