------------------------------- MODULE MCSensors -------------------------------
(***************************************************************************)
(* An instance of Sensors.tla: a CPU with two files, one GPU that hwmon    *)
(* shows, and a file of the user's; a time span that is no multiple of the *)
(* poll interval.                                                          *)
(***************************************************************************)
EXTENDS Sensors

MCChips == {[name |-> "coretemp", file |-> "temp1"], [name |-> "coretemp", file |-> "temp2"],
            [name |-> "amdgpu", file |-> "temp1_gpu"]}

MCDevices == {{}, {[vendor |-> "10de", driver |-> "nvidia"], [vendor |-> "1002", driver |-> "vfio-pci"]},
              {[vendor |-> "10de", driver |-> "pci-stub"]}}

MCCommands == [sensor \in {"$cmd"} |-> "cmd"]

\* Nothing to say of a fan, and entries of one.
Entry(f, sensors, a) == [fan |-> f, sensors |-> sensors, algorithm |-> a]
Silent == Entry(1, <<>>, "unset")

\* The defaults alone; a model config the user overrides in part; one the user
\* overrides twice; a file two fans share, one by path and one by group; an
\* invalid fan.
MCConfigs ==
    { [model |-> <<Silent, Silent>>, service |-> <<>>],
      [model |-> <<Entry(1, <<"@GPU">>, "Max"), Entry(2, <<"coretemp">>, "unset")>>,
       service |-> <<Entry(2, <<"$cmd", "@CPU">>, "Min")>>],
      [model |-> <<Entry(1, <<"/file">>, "unset"), Entry(2, <<"/file", "nvidia-ml">>, "Average")>>,
       service |-> <<Entry(1, <<"temp1">>, "Max"), Entry(1, <<>>, "Min"), Entry(1, <<"temp2">>, "unset")>>],
      [model |-> <<Entry(1, <<"none", "/file">>, "Min"), Silent>>, service |-> <<Entry(3, <<>>, "unset")>>] }

\* They name no sensor that designates the source of another.
ASSUME MCConfigsAssumption == SensorsAreUnambiguous
================================================================================
