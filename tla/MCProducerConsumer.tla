------------------------- MODULE MCProducerConsumer -------------------------
\* ProducerConsumer with named threads; the cfg files choose how many of them.
EXTENDS ProducerConsumer

CONSTANTS p1, p2, c1, c2

OneProducer == {p1}
TwoProducers == {p1, p2}
OneConsumer == {c1}
TwoConsumers == {c1, c2}
=============================================================================
