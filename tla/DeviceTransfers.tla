---------------------------- MODULE DeviceTransfers ----------------------------
(***************************************************************************)
(* What the bus, clocks, devices, plugins and the registry do with         *)
(* pointers: the rows of gst_bus.go, gst_clock.go, gst_system_clock.go,    *)
(* gst_device.go, gst_device_monitor.go, gst_device_provider.go,           *)
(* gst_device_provider_factory.go, gst_plugin.go, gst_plugin_feature.go    *)
(* and gst_registry.go (see TransferRows).  The bus holds its messages,    *)
(* the registry its plugins; an ID of a clock is an object.                *)
(***************************************************************************)
EXTENDS TransferRows

NewBusRows == Result("object", "full", "full", {"NewBus"})

\* HavePending to TimedPopFiltered.
BusRows ==
    Result("object", "full", "full",
      {"Bus.Peek", "Bus.Poll", "Bus.Pop", "Bus.PopFiltered",
       "Bus.TimedPop", "Bus.TimedPopFiltered"})
    \cup Arg("object", "ref", "consumes", {"Bus.Post"})

ClockIDGetters ==
    Result("object", "full", "full", {"ClockID.GetClock"})
    \cup Arg("object", "plain", "none", {"ClockID.UsesClock"})

\* An ID has Unref as its finalizer.
ClockIDRows ==
    Result("object", "full", "full",
      {"Clock.NewPeriodicID", "Clock.NewSingleShotID"})
    \cup Arg("object", "plain", "none", {"Clock.PeriodicIDReinit"})

SystemClocks == Result("object", "full", "full", {"ObtainSystemClock"})

ClockMasters ==
    Result("object", "full", "full", {"Clock.GetMaster"})
    \cup Arg("object", "plain", "keeps", {"Clock.SetMaster"})

DeviceRows ==
    Result("object", "floating", "none", {"Device.CreateElement"})
    \cup Result("object", "full", "none", {"Device.GetCaps"})
    \cup Result("structure", "full", "bare", {"Device.GetProperties"})
    \cup Result("memory", "full", "freed",
           {"Device.GetDeviceClass", "Device.GetDisplayName"})
    \cup Arg("object", "plain", "none", {"Device.ReconfigureElement"})
    \cup TempStrings({"Device.CreateElement", "Device.HasClasses"})

\* A monitor has no finalizer.  The devices of a list are wrapped, the list is
\* not freed.
MonitorRows ==
    Result("object", "full", "bare", {"NewDeviceMonitor"})
    \cup Result("object", "full", "full",
           {"DeviceMonitor.GetBus", "DeviceMonitor.GetDevices"})
    \cup Result("memory", "full", "bare", {"DeviceMonitor.GetDevices"})
    \cup Arg("object", "plain", "keeps", {"DeviceMonitor.AddFilter"})
    \cup TempStrings({"DeviceMonitor.AddFilter"})

ProviderRows ==
    Result("object", "full", "full",
      {"DeviceProvider.GetBus", "DeviceProvider.GetDevices"})
    \cup Result("memory", "full", "bare", {"DeviceProvider.GetDevices"})

ProviderFactoryRows ==
    Result("object", "full", "full", {"FindDeviceProviderByName"})
    \cup TempStrings({"FindDeviceProviderByName"})

\* Export to LoadPluginFile.  The exported description stays C's, but its name
\* is memory of Go; an error is freed without its message.
PluginLoaders ==
    Arg("memory", "made", "consumes", {"PluginMetadata.Export"})
    \cup Arg("memory", "plain", "consumes", {"PluginMetadata.Export.name"})
    \cup Result("object", "full", "full", {"LoadPluginByName", "LoadPluginFile"})
    \cup Result("memory", "full", "freed", {"LoadPluginFile"})
    \cup Result("memory", "full", "copied", {"LoadPluginFile.message"})
    \cup TempStrings({"RegisterPlugin", "LoadPluginByName", "LoadPluginFile"})

\* Description to Origin.
PluginGetters ==
    BorrowedStrings(
      {"Plugin.Description", "Plugin.Filename", "Plugin.Version",
       "Plugin.License", "Plugin.Source", "Plugin.Package", "Plugin.Origin"})

FeatureGetters ==
    Result("object", "full", "full", {"PluginFeature.GetPlugin"})
    \cup BorrowedStrings({"PluginFeature.GetPluginName"})

RegistryRows ==
    Result("object", "none", "none", {"GetRegistry"})
    \cup Result("object", "full", "full",
           {"Registry.FindPlugin", "Registry.LookupFeature"})
    \cup TempStrings({"Registry.FindPlugin", "Registry.LookupFeature"})

DeviceAndPluginRows ==
    NewBusRows \cup BusRows \cup ClockIDGetters \cup ClockIDRows \cup SystemClocks
    \cup ClockMasters \cup DeviceRows \cup MonitorRows \cup ProviderRows
    \cup ProviderFactoryRows \cup PluginLoaders \cup PluginGetters
    \cup FeatureGetters \cup RegistryRows

\* Where Go and C disagree: caps with a reference too many, properties, lists, a
\* monitor and a message that nobody frees, a name that is freed in use.
DeviceDivergent ==
    {<<"Device.GetCaps", "object">>, <<"NewDeviceMonitor", "object">>,
     <<"Device.GetProperties", "structure">>,
     <<"DeviceMonitor.GetDevices", "memory">>,
     <<"DeviceProvider.GetDevices", "memory">>,
     <<"PluginMetadata.Export.name", "memory">>,
     <<"LoadPluginFile.message", "memory">>}
=============================================================================
