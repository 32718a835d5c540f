---------------------------- MODULE MCTxPipeline ----------------------------
(* Small instances of TxPipeline. *)
EXTENDS TxPipeline, TLC

CONSTANTS alice, module, l1, m1, d1, k1, k2

\* A contract, a call of it, and a vote.
MCContractKind == <<"instantiate", "execute", "vote">>

\* Two withdrawals of one delegator in one second.
MCRewardKind == <<"withdraw", "redelegate">>

MCAlice == [t \in Tx |-> alice]

\* toAddress stays empty for a contract and is the path of the message for a
\* withdrawal and a vote.
MCNobody == [t \in Tx |-> NoAddress]
MCModule == [t \in Tx |-> module]
MCOneSecond == [t \in Tx |-> 1]
=============================================================================
