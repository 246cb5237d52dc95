-------------------------- MODULE MCPortfolioSync ---------------------------
(* Constants for model checking PortfolioSync. *)
EXTENDS PortfolioSync, TLC

\* Ethereum, and Polygon with the slug it is requested with and the one it has in
\* the answer.
MCNetworkMap ==
    [ETH |-> [request |-> "eth-mainnet", response |-> "eth-mainnet"],
     POL |-> [request |-> "polygon-mainnet", response |-> "matic-mainnet"]]

MCAnswers ==
    [s \in {"eth-mainnet", "polygon-mainnet"} |->
        IF s = "polygon-mainnet" THEN "matic-mainnet" ELSE s]

\* Any two of the three calls may overlap, of one network or of two, and the last may
\* find what the others saved.
MCMaxTransfers == [ETH |-> 1, POL |-> 2]

=============================================================================
