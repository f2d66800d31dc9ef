----------------------------- MODULE MCEthRpc -----------------------------
(* Model values for the run of EthRpc.                                     *)
EXTENDS EthRpc

CONSTANTS t1, t2

MCTx == {t1, t2}

Do(method, raw) == [method |-> method, raw |-> raw, notify |-> FALSE]
Tell(call) == [call EXCEPT !.notify = TRUE]

Send(tx) == Do("eth_sendRawTransaction", tx)
Read == Do("eth_call", t1)

\* Single calls that throw or write, batches that write and read, a
\* notification that writes, and parameters with a quote, which only an
\* eth_call takes to a command.
MCBodies ==
  {<<Send(t1)>>, <<Read>>, <<Send(t2), Read>>, <<Tell(Send(t1))>>,
   <<Do("eth_call", NoRaw), Do("eth_chainId", NoRaw)>>,
   <<Send(Unparsed), Send(Unsigned), Do("net_version", NoRaw)>>,
   <<Send(Quoted), Do("eth_call", Quoted)>>}
=============================================================================
