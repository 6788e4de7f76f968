------------------------------ MODULE MCStatus ------------------------------
EXTENDS Status, TLC

CONSTANTS kitchen, hall, ground, upstairs, owner

Id(z, n) == [zeros |-> z, number |-> n]
Zeros == Id(2, 0)
One1 == Id(0, 1)
Two == Id(0, 2)
ZeroTwo == Id(1, 2)

Dcs(code, message, ri) ==
  [type |-> "SIA-DCS", code |-> code, ri |-> ri, partition |-> None, id |-> None,
   message |-> message, stamp |-> None]
Cid(code, ri, group) ==
  [type |-> "ADM-CID", code |-> code, ri |-> ri, partition |-> group, id |-> None,
   message |-> None, stamp |-> None]
Aged(m, age) == [m EXCEPT !.stamp = age]

MCHubMessages == {
  Dcs("BT", ZeroTwo, One1), Dcs("BR", ZeroTwo, One1), Cid("BT", Two, One1),
  Dcs("CL", Two, One1), Aged(Dcs("NL", One1, Two), 1), Dcs("OG", Two, Zeros),
  Dcs("QX", Two, One1), Dcs("RP", Scrap, Zeros)}

MCSia ==
  [c \in {"BT", "BR", "QX", "BA", "FA"} |->
     [concerns |-> "Zone or point", words |-> {"burglary", "alarm", "arm", "trouble"}]] @@
  [c \in {"CL"} |-> [concerns |-> "User number", words |-> {}]] @@
  [c \in {"NL", "OG"} |-> [concerns |-> "Area number", words |-> {"arm"}]] @@
  [c \in {"RP"} |-> [concerns |-> "Unused", words |-> {"test"}]]

MCDevices == <<[id |-> ZeroTwo, name |-> kitchen], [id |-> One1, name |-> hall]>>
MCDeviceTypes == <<[id |-> Two, name |-> "burglary"]>>
MCPartitions == <<[id |-> One1, name |-> ground], [id |-> Two, name |-> upstairs]>>
MCUsers == <<[id |-> Two, name |-> owner]>>
=============================================================================
