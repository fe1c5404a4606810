------------------------------ MODULE MCWorkRun ------------------------------
(***************************************************************************)
(* Small chains for WorkRun: two stages of one agent each, two agents side *)
(* by side, two nodes of one agent in the same stage.                      *)
(***************************************************************************)
EXTENDS WorkRun

CONSTANTS a, b

TheNode(id, who, deps) == [id |-> id, assignee |-> who, deps |-> deps]

Alone == <<TheNode(1, a, {})>>
InARow == <<TheNode(1, a, {}), TheNode(2, b, {1})>>
SideBySide == <<TheNode(1, a, {}), TheNode(2, b, {})>>
OneForBoth == <<TheNode(1, a, {}), TheNode(2, a, {})>>

Run(chain_, liberties) ==
  [chain |-> chain_, stage |-> Stages(chain_), allowed |-> liberties]

EveryScenario ==
  {Run(InARow, {}), Run(InARow, {"say"}), Run(Alone, {"early", "fail", "crash"}),
   Run(Alone, {"stop", "continue"}), Run(OneForBoth, {"continue"})}

Ordinary == {Run(SideBySide, {})}
WithSpeech == {Run(Alone, {"say"})}
=============================================================================
