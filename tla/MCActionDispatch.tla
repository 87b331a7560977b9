-------------------------- MODULE MCActionDispatch --------------------------
(* Small instances of ActionDispatch: chats, whose turns wait for the      *)
(* owner, and autonomous tasks, which are parked.                          *)
EXTENDS ActionDispatch, TLC

CONSTANTS p, q, chat, talk, job

MCOneAction == {p}

MCTwoActions == {p, q}

MCTwoChats == {chat, talk}

MCOneJob == {job}

MCNone == {}

ChatSymmetry == Permutations(MCTwoChats)
=============================================================================
