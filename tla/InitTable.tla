------------------------------ MODULE InitTable ------------------------------
(***************************************************************************)
(* The static driver table: the enum of module ids (async_minit.h) and the *)
(* row of each of them, X_nfo, in async.c.  A row is                       *)
(*     type [, group [, parent1 [, parent2]]]                              *)
(* and the get_nfo_N macros fill what is left out with grp_none and none.  *)
(* Rows whose id is not in MOD_IDS never reach init_info and are not here. *)
(***************************************************************************)
EXTENDS Naturals, Sequences, TLC

(***************************************************************************)
(* MOD_IDS, in enum order.                                                 *)
(***************************************************************************)
ModIds1 == <<
    "grp_none", "grp_hid", "grp_dma", "grp_char", "grp_usb", "grp_ssb",
    "grp_snd_hda", "ssb_modinit", "intel_cqm_init", "amd_ibs_init",
    "ahci_pci_driver_init", "ahci_driver_init", "generic_driver_init",
    "cmedia_driver_init", "realtek_driver_init", "analog_driver_init",
    "si3054_driver_init", "cirrus_driver_init", "sigmatel_driver_init",
    "ca0110_driver_init", "ca0132_driver_init", "conexant_driver_init",
    "via_driver_init", "hdmi_driver_init", "fbmem_init", "mda_console_init",
    "newport_console_init", "sticonsole_init", "acpi_ac_init",
    "agp_nvidia_init", "nvidia_frontend_init_module", "uvm_init",
    "ioat_init_module", "acpi_video_init", "agp_init", "drm_core_init",
    "pch_dma_driver_init", "ismt_driver_init", "lpc_sch_driver_init",
    "lpc_ich_driver_init", "serial8250_init", "nforce2_driver_init",
    "crypto_xcbc_module_init", "forcedeth_pci_driver_init", "init_cifs",
    "acpi_pcc_driver", "acpi_hed_driver", "acpi_smb_hc_driver",
    "crb_acpi_driver", "acpi_smbus_cmi_driver", "atlas_acpi_driver",
    "smo8800_driver", "lis3lv02d_driver", "irst_driver",
    "smartconnect_driver", "pvpanic_driver", "acpi_topstar_driver",
    "toshiba_bt_rfkill_driver", "toshiba_haps_driver", "xo15_ebook_driver",
    "drm_fb_helper_modinit", "acpi_button_driver_init",
    "acpi_power_meter_init", "synusb_driver_init", "usblp_driver_init",
    "rfcomm_init", "alsa_timer_init", "alsa_hwdep_init",
    "alsa_seq_device_init", "alsa_mixer_oss_init", "snd_hrtimer_init",
    "alsa_pcm_init", "alsa_seq_init", "alsa_pcm_oss_init",
    "alsa_seq_midi_event_init", "alsa_seq_dummy_init", "snd_hda_controller",
    "patch_si3054_init", "patch_ca0132_init", "patch_hdmi_init",
    "alsa_seq_oss_init", "snd_hda_intel", "patch_sigmatel_init",
    "patch_cirrus_init", "patch_ca0110_init"
>>

ModIds2 == <<
    "patch_via_init", "patch_realtek_init", "patch_conexant_init",
    "patch_cmedia_init", "patch_analog_init", "coretemp", "gpio_fan",
    "acpi_processor_driver_init", "init_mtd", "ubi_init", "uio_init",
    "hilscher_pci_driver_init", "mxm_wmi_init", "speedstep_init",
    "mmc_blk_init", "uvcvideo", "gspca_main", "ir_kbd_driver",
    "i2c_mux_gpio_driver", "pca9541_driver", "pca954x_driver",
    "uhci_hcd_init", "usbmon", "usb_storage_driver_init", "led_driver_init",
    "uhid_init", "hid_init", "hid_generic_init", "hid_generic",
    "cherry_driver_init", "chicony_driver_init", "usb_hid_init",
    "apple_driver_init", "a4_driver_init", "ez_driver_init", "cp_driver_init",
    "ks_driver_init", "ms_driver_init", "lg_driver_init", "mr_driver_init",
    "belkin_driver_init", "plantronics_driver_init", "keytouch_driver_init",
    "ene_ub6250_driver_init", "uas_driver_init", "realtek_cr_driver_init",
    "ehci_pci_init", "libphy", "smsc", "lib80211_init",
    "lib80211_crypto_tkip_init", "lib80211_crypto_wep_init",
    "lib80211_crypto_ccmp_init", "libipw_init", "led_class", "hwrng_modinit",
    "prng_mod_init", "ipw2100_init", "leds_pca955x", "b43", "b43legacy_init",
    "intel_rng_mod_init", "af_alg_init", "algif_hash_init",
    "algif_skcipher_init", "alg_hash", "lzo_mod_init",
    "crypto_authenc_module_init", "crypto_authenc_esn_module_init",
    "cast5_mod_init", "cast6_mod_init", "blowfish_mod_init", "zlib_mod_init",
    "prgn_mod_init", "crypto_cbc_module_init"
>>

ModIds3 == <<
    "crc32_mod_init", "crc32c_mod_init", "twofish_mod_init", "wp512_mod_init",
    "crct10dif_mod_init", "crypto_null_mod_init", "crypto_ecb_module_init",
    "crypto_module_init", "crypto_user_init", "lz4_mod_init", "md4_mod_init",
    "md5_mod_init", "rmd128_mod_init", "rmd160_mod_init", "rmd256_mod_init",
    "rmd320_mod_init", "sha1_generic_mod_init", "sha256_generic_mod_init",
    "sha512_generic_mod_init", "elo_driver_init", "ehci_hcd_init",
    "ohci_pci_init", "ohci_platform_init", "ohci_hcd_mod_init",
    "ehci_platform_init", "tcrypt_mod_init", "tea_mod_init",
    "tgr192_mod_init", "pcie_portdrv_init", "init_iso9660_fs", "fuse_init",
    "cuse_init", "journal_init", "init_ext3_fs", "init_fat_fs",
    "init_vfat_fs", "init_msdos_fs", "init_ntfs_fs", "acpi_ipmi_init",
    "acpi_pad_init", "acpi_battery_init", "acpi_sbs_init",
    "acpi_thermal_init", "cpufreq_gov_dbs_init", "cpufreq_gov_powersave_init",
    "cpufreq_stats_init", "cpufreq_gov_userspace_init", "hpet_init",
    "pci_hotplug_init", "pcied_init", "shpcd_init", "twofish_generic",
    "twofish_i586", "asymmetric_key_init", "pkcs7_key_init", "x509_key_init",
    "aes_init", "vmac_module_init", "mousedev_init", "atkbd_init",
    "uinput_init", "psmouse_init", "serport_init", "b43_init",
    "vb2_thread_init", "azx_driver_init", "crypto_algapi_init",
    "chainiv_module_init", "pcie_pme_service_init", "seqiv_module_init",
    "eseqiv_module_init", "crypto_cmac_module_init",
    "crypto_pcbc_module_init", "crypto_ctr_module_init"
>>

ModIds4 == <<
    "crypto_gcm_module_init", "hmac_module_init", "crypto_cts_module_init",
    "crypto_ccm_module_init", "des_generic_mod_init", "fcrypt_mod_init",
    "serpent_mod_init", "camellia_init", "arc4_init", "khazad_mod_init",
    "seed_init", "anubis_mod_init", "salsa20_generic_mod_init",
    "krng_mod_init", "michael_mic_init", "ghash_mod_init", "async_pq_init",
    "deflate_mod_init", "brd_init", "loop_init", "tcp_congestion_default",
    "i2c_hid_driver_init", "smbalert_driver_init", "pca9541_driver_init",
    "pca954x_driver_init", "pca955x_driver_init", "ir_kbd_driver_init",
    "i8042_init", "serial_pci_driver_init", "spi_gpio_driver_init",
    "init_per_zone_wmark_min", "init", "proc_execdomains_init", "kswapd_init",
    "proc_modules_init", "fcntl_init", "acpi_fan_driver_init", "cn_proc_init",
    "nvram_init", "mod_init", "coretemp_init", "gpio_fan_driver_init",
    "i2c_dev_init", "i2c_i801_init", "smbus_sch_driver_init",
    "i2c_mux_gpio_driver_init", "intel_idle_init", "simtec_i2c_driver_init",
    "evdev_init", "gspca_init", "uvc_init", "ptp_pch_init", "phy_module_init",
    "cmos_init", "init_sd", "pty_init", "init_sg", "sbf_init", "setup_vmstat",
    "extfrag_debug_init", "proc_filesystems_init", "dio_init",
    "init_autofs4_fs", "configfs_init", "init_devpts_fs", "ext4_init_fs",
    "init_ext2_fs", "init_hugetlbfs_fs", "init_nls_cp437", "init_nls_cp850",
    "init_nls_cp852", "dnotify_init", "init_nls_ascii", "init_nls_iso8859_1",
    "init_nls_utf8"
>>

ModIds5 == <<
    "inotify_user_setup", "proc_locks_init", "init_udf_fs", "init_mbcache",
    "proc_genhd_init", "noop_init", "deadline_init", "cfq_init",
    "init_dns_resolver", "sock_diag_init", "cubictcp_register", "packet_init",
    "slab_proc_init", "workingset_init", "hugetlb_init", "proc_vmalloc_init",
    "ikconfig_init", "pmc_atom_init", "crc_t10dif_mod_init",
    "libcrc32c_mod_init", "percpu_counter_startup", "alsa_sound_last_init",
    "pcips2_driver_init", "sermouse_drv_init", "serio_raw_drv_init",
    "oprofile_init", "add_pcspkr", "acpi_smb_hc_driver_init", "nforce2_init",
    "snd_compress_init", "pcspkr_platform_driver_init",
    "deinterlace_pdrv_init"
>>

MOD_IDS == ModIds1 \o ModIds2 \o ModIds3 \o ModIds4 \o ModIds5

\* MODULES_ID puts the id that means "no module" first.
MODULES_ID == <<"none">> \o MOD_IDS

(***************************************************************************)
(* The types.  Every row that is not named here is deferred.               *)
(***************************************************************************)
Asynchronized == {
    "ahci_pci_driver_init", "ahci_driver_init", "fbmem_init",
    "mda_console_init", "newport_console_init", "sticonsole_init",
    "acpi_ac_init", "workingset_init", "agp_init", "agp_nvidia_init",
    "cn_proc_init", "configfs_init", "coretemp_init", "crc_t10dif_mod_init",
    "acpi_video_init", "cubictcp_register", "dio_init", "dnotify_init",
    "drm_core_init", "evdev_init", "ext4_init_fs", "extfrag_debug_init",
    "fcntl_init", "i2c_dev_init", "hugetlb_init", "i2c_i801_init",
    "i2c_mux_gpio_driver_init", "ikconfig_init", "init_devpts_fs",
    "init_hugetlbfs_fs", "init_mbcache", "deadline_init", "init_nls_ascii",
    "init_nls_cp437", "init_nls_cp850", "init_nls_cp852",
    "init_nls_iso8859_1", "init_nls_utf8", "init_per_zone_wmark_min",
    "init_sd", "init_sg", "init", "inotify_user_setup", "ioat_init_module",
    "proc_execdomains_init", "proc_filesystems_init", "proc_genhd_init",
    "proc_locks_init", "proc_modules_init", "proc_vmalloc_init",
    "libcrc32c_mod_init", "nvidia_frontend_init_module", "nvram_init",
    "percpu_counter_startup", "phy_module_init", "ptp_pch_init", "pty_init",
    "intel_idle_init", "pch_dma_driver_init", "sbf_init", "setup_vmstat",
    "uvm_init", "sock_diag_init"
}

AsynchronizedOutliers == {"kswapd_init", "slab_proc_init"}

Disabled == {
    "none", "grp_hid", "grp_dma", "grp_char", "grp_none", "grp_usb",
    "grp_ssb", "grp_snd_hda", "intel_cqm_init", "pmc_atom_init",
    "amd_ibs_init", "alsa_sound_last_init"
}

(***************************************************************************)
(* Rows with a group or parents.                                           *)
(***************************************************************************)
\* The rows of the drivers ids, with the columns their macros leave out.
Row(ids, g, p1, p2) ==
    [i \in ids |-> [grp_id |-> g, parent1_id |-> p1, parent2_id |-> p2]]

Rows1 ==
    Row({"ssb_modinit"}, "grp_ssb", "none", "none") @@
    Row({"b43_init"}, "grp_none", "grp_ssb", "none") @@
    Row({"b43", "b43legacy_init"}, "grp_none", "grp_ssb", "hwrng_modinit") @@
    Row({"ahci_driver_init"}, "grp_none", "ahci_pci_driver_init", "none") @@
    Row({"mda_console_init", "newport_console_init", "sticonsole_init"},
        "grp_none", "fbmem_init", "none") @@
    Row({"agp_init"}, "grp_none", "ioat_init_module", "acpi_video_init") @@
    Row({"agp_nvidia_init", "drm_core_init"},
        "grp_none", "agp_init", "none") @@
    Row({"ext4_init_fs"}, "grp_none", "init_hugetlbfs_fs", "none") @@
    Row({"ioat_init_module"}, "grp_dma", "none", "none") @@
    Row({"nvidia_frontend_init_module"},
        "grp_none", "drm_core_init", "none") @@
    Row({"nvram_init"}, "grp_none", "pty_init", "none") @@
    Row({"uvm_init"}, "grp_none", "nvidia_frontend_init_module", "none")

Rows2 ==
    Row({"generic_driver_init", "realtek_driver_init", "cmedia_driver_init",
        "analog_driver_init", "sigmatel_driver_init", "cirrus_driver_init",
        "ca0110_driver_init", "ca0132_driver_init", "conexant_driver_init",
        "via_driver_init", "hdmi_driver_init", "si3054_driver_init"},
        "grp_none", "grp_snd_hda", "none") @@
    Row({"a4_driver_init", "apple_driver_init", "belkin_driver_init",
        "cherry_driver_init", "chicony_driver_init", "cp_driver_init"},
        "grp_none", "hid_init", "uhid_init") @@
    Row({"acpi_pcc_driver", "acpi_smb_hc_driver", "acpi_topstar_driver",
        "atlas_acpi_driver", "crb_acpi_driver"},
        "grp_none", "acpi_ac_init", "none") @@
    Row({"algif_hash_init", "algif_skcipher_init"},
        "grp_none", "af_alg_init", "none") @@
    Row({"alsa_pcm_init"}, "grp_none", "alsa_timer_init", "none") @@
    Row({"alsa_pcm_oss_init"},
        "grp_none", "alsa_mixer_oss_init", "alsa_pcm_init") @@
    Row({"alsa_seq_dummy_init", "alsa_seq_midi_event_init"},
        "grp_none", "alsa_seq_init", "none") @@
    Row({"alsa_seq_init"},
        "grp_none", "alsa_seq_device_init", "alsa_timer_init") @@
    Row({"alsa_seq_oss_init"},
        "grp_none", "alsa_seq_midi_event_init", "none") @@
    Row({"crypto_authenc_esn_module_init"},
        "grp_none", "crypto_authenc_module_init", "none")

Rows3 ==
    Row({"cuse_init"}, "grp_none", "fuse_init", "none") @@
    Row({"ehci_pci_init", "ehci_platform_init"},
        "grp_none", "ehci_hcd_init", "none") @@
    Row({"ene_ub6250_driver_init"},
        "grp_none", "usb_storage_driver_init", "none") @@
    Row({"ez_driver_init", "hid_generic_init", "hid_generic",
        "keytouch_driver_init", "ks_driver_init", "lg_driver_init",
        "mr_driver_init", "ms_driver_init"},
        "grp_none", "hid_init", "uhid_init") @@
    Row({"hid_init"}, "grp_none", "ohci_platform_init", "none") @@
    Row({"hilscher_pci_driver_init"}, "grp_none", "uio_init", "none") @@
    Row({"init_ext3_fs"}, "grp_none", "journal_init", "none") @@
    Row({"init_msdos_fs", "init_vfat_fs"},
        "grp_none", "init_fat_fs", "none") @@
    Row({"intel_rng_mod_init"}, "grp_none", "hwrng_modinit", "none") @@
    Row({"ipw2100_init", "lib80211_crypto_ccmp_init",
        "lib80211_crypto_tkip_init", "lib80211_crypto_wep_init", "libipw_init"},
        "grp_none", "lib80211_init", "none") @@
    Row({"irst_driver", "lis3lv02d_driver"},
        "grp_none", "acpi_ac_init", "none") @@
    Row({"ohci_hcd_mod_init"}, "ehci_platform_init", "none", "none") @@
    Row({"ohci_pci_init"}, "ohci_hcd_mod_init", "ehci_hcd_init", "none") @@
    Row({"ohci_platform_init"}, "ohci_hcd_mod_init", "none", "none")

Rows4 ==
    Row({"pci_hotplug_init"}, "grp_none", "pcie_portdrv_init", "none") @@
    Row({"pcied_init"}, "grp_none", "pci_hotplug_init", "none") @@
    Row({"plantronics_driver_init"}, "grp_none", "hid_init", "uhid_init") @@
    Row({"pvpanic_driver", "smartconnect_driver", "smo8800_driver",
        "toshiba_bt_rfkill_driver", "toshiba_haps_driver", "xo15_ebook_driver"},
        "grp_none", "acpi_ac_init", "none") @@
    Row({"realtek_cr_driver_init", "uas_driver_init"},
        "grp_none", "usb_storage_driver_init", "none") @@
    Row({"shpcd_init"}, "grp_none", "pcied_init", "none") @@
    Row({"smsc"}, "grp_none", "libphy", "none") @@
    Row({"snd_hda_intel"}, "grp_none", "snd_hda_controller", "none") @@
    Row({"snd_hrtimer_init"}, "grp_none", "alsa_timer_init", "none") @@
    Row({"ubi_init"}, "grp_none", "init_mtd", "none") @@
    Row({"uhci_hcd_init"}, "grp_none", "ehci_hcd_init", "none") @@
    Row({"uhid_init"}, "grp_none", "ohci_platform_init", "none")

NfoRows == Rows1 @@ Rows2 @@ Rows3 @@ Rows4

\* The get_nfo_N macros applied to every id, given the asynchronized ones.
get_nfo(async) ==
    [i \in {MODULES_ID[n] : n \in 1..Len(MODULES_ID)} |->
        [type |-> IF i \in async THEN "asynchronized"
                  ELSE IF i \in Disabled THEN "disable" ELSE "deferred"] @@
        (IF i \in DOMAIN NfoRows
           THEN NfoRows[i]
           ELSE [grp_id |-> "grp_none", parent1_id |-> "none", parent2_id |-> "none"])]

\* Mutant: one driver of the display chain is moved to the deferred stage.
InitInfoAgpDeferred ==
    get_nfo((Asynchronized \cup AsynchronizedOutliers) \ {"agp_init"})

\* Mutant: the USB host waits for the input layer that waits for it.
InitInfoUsbLoop ==
    [get_nfo(Asynchronized \cup AsynchronizedOutliers) EXCEPT
        !["ohci_platform_init"].parent1_id = "hid_init"]

\* init_info[], indexed by id.
InitInfo == get_nfo(Asynchronized \cup AsynchronizedOutliers)

\* The ids that stand for a group and not for an init function.
GroupIds == {"grp_none", "grp_hid", "grp_dma", "grp_char", "grp_usb", "grp_ssb",
             "grp_snd_hda"}

AllIds == DOMAIN InitInfo

-----------------------------------------------------------------------------
\* What a row waits for: its parents, and for a group every driver that
\* brings it.
Awaits(i) ==
    LET parents == {InitInfo[i].parent1_id, InitInfo[i].parent2_id} \ {"none"}
    IN  (parents \ GroupIds) \cup
        {m \in AllIds : InitInfo[m].grp_id \in parents \cap GroupIds}

\* Drivers left after n rounds of starting every driver that waits for none
\* of those left.
StillWaiting[n \in Nat] ==
    IF n = 0 THEN AllIds
    ELSE LET left == StillWaiting[n - 1]
         IN  {i \in left : Awaits(i) \cap left # {}}

=============================================================================
