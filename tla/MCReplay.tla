------------------------------ MODULE MCReplay ------------------------------
(***************************************************************************)
(* Two turns with two attempts each, two decimals and leverages up to 9.99.*)
(* The bodies: a whole, a padded and a negative stripped leverage, with    *)
(* and without a slippage limit; one out of range; one that is not JSON.   *)
(***************************************************************************)
EXTENDS Replay

Bodies ==
  {Action(Integer_(-3), NoLimit),
   Action(Decimal(FALSE, 1, <<0, 5>>), 10),
   Action(Decimal(TRUE, 9, <<9>>), 0),
   Action(Integer_(10), 11),
   Faulty("invalid_json")}

Reply(status, body) == [what |-> "reply", status |-> status, body |-> body]

MCAnswers ==
  {Reply("success", b) : b \in Bodies}
    \cup {Reply("client error", Action(Integer_(2), NoLimit)),
          [what |-> "timeout"], [what |-> "agent_error"]}

MCFacts == <<"one", "other">>

MCRuinous == {-300}
=============================================================================
