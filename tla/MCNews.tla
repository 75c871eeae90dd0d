-------------------------------- MODULE MCNews --------------------------------
\* Values for News_utc.cfg: one stock, an article a tick.
EXTENDS News

MCTickers == <<"A">>
MCHeadlines == {{"A", "order"}}
MCTerms == <<[norm |-> "order", exclude |-> {}, polarity |-> "positive"]>>
==============================================================================
