------------------------------ MODULE MCInetd ------------------------------
EXTENDS Inetd

Tcp == [proto |-> "tcp", port |-> 1]
Wait == [proto |-> "wait", port |-> 2]
Nowait == [proto |-> "nowait", port |-> 2]

\* A reload keeps only the second service (the first then finds its port in use),
\* keeps both, or closes all, with one service less than there were.
MCStart == <<Tcp, Wait>>
MCConfigs == {<<Nowait, Wait>>, <<Nowait>>}
====
