---------------------------- MODULE MCObservers ----------------------------
EXTENDS Observers

TheLights == {<<-1, 1>>, <<-5, 4>>}
TheDark == <<-1, 1>>
TheSync == <<0, 3>>
TheStart == <<-2, 6>>
TheFound == {<<-4, 4>>}
TheCaptures == {[channel |-> "CHAN2", window |-> <<0, 1>>, on |-> "CHAN2"]}
=============================================================================
