------------------------------ MODULE MCCollab ------------------------------
\* Two editors of one document.
EXTENDS Collab, TLC

CONSTANTS ann, bob, seedUnit, annUnit, bobUnit

MCSeed == <<seedUnit>>
MCUnit == [c \in Client |-> IF c = ann THEN annUnit ELSE bobUnit]

AnnTwo   == [c \in Client |-> IF c = ann THEN 2 ELSE 1]
OneEach  == [c \in Client |-> 1]
=============================================================================
