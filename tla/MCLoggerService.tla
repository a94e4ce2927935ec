----------------------------- MODULE MCLoggerService -----------------------------
(* Small instances of LoggerService for TLC: configuration files. *)
EXTENDS LoggerService, TLC

Device(name, type) ==
  [name |-> Text(name), type |-> Text(type), host |-> Text("host"), profile |-> Text("deye"),
   serial |-> Absent, port |-> Absent, slave |-> Absent, poll_interval |-> Absent]
Influx == [field \in {"url", "org", "bucket", "token"} |-> Text("x")]
Home   == <<Device("roof", "inverter"),
            [serial |-> Hex(37), slave |-> Decimal(1), poll_interval |-> Num(30)] @@ Device("grid", "meter")>>
File(devices) == [influxdb |-> Influx, poll_interval |-> Num(60), devices |-> devices]

With(change) == File(<<Home[1], change @@ Home[2]>>)

\* Three devices; two of one name; an interval of 0; and one file for each defect.
const_files ==
  {File(Append(Home, Device("shed", "inverter"))),
   With([name |-> Text("roof")]),
   With([poll_interval |-> Num(0)]),
   With([type |-> Blank]), With([host |-> Null]), With([profile |-> Absent]),
   With([serial |-> Num(-1)]), With([serial |-> Text("SN")]), With([serial |-> Null]),
   With([port |-> Text("tcp")]), With([slave |-> Hex(10)]), With([port |-> Null]), With([poll_interval |-> Text("1m")]),
   File(<<>>),
   [File(Home) EXCEPT !.poll_interval = Num(0)],
   [File(Home) EXCEPT !.poll_interval = Decimal(60)],
   [File(Home) EXCEPT !.influxdb.token = Blank]}
=============================================================================
